---- MODULE Spec2Model ----
(***************************************************************************)
(* Profile resolution and multi-tier caching of aws-containers:            *)
(* the INI parsers and their mtime cache, the SSO token cache, the         *)
(* credential provider, the profile aggregator and the console URL         *)
(* generator, as state machines over a small file system and a clock.      *)
(***************************************************************************)
EXTENDS Integers, Sequences, FiniteSets, TLC

VARIABLES
    now,          \* the wall clock (datetime.now / time.time)
    cred_file,    \* ~/.aws/credentials : [exists, mtime, content]
    config_file,  \* ~/.aws/config      : [exists, mtime, content]
    nosso,        \* ~/.aws/.nosso exists
    sso_dir,      \* ~/.aws/sso/cache   : file name -> token file content
    boto3,        \* BOTO3_AVAILABLE
    impl,         \* the program running: "api" (api-server), "nm" (native-messaging/src),
                  \* "legacy" (native-messaging/aws_profile_bridge.py)
    file_cache,   \* FileCache._cache   : path -> [has, mtime, data]
    memory_cache, \* SSOTokenCache._memory_cache : start url -> [has, token, cache_time]
    url_cache,    \* ConsoleURLCache.db : the documents [name, url, expires_at, cached_at,
                  \* credential_expiry]
    profile_cache, \* ProfileCache : [enabled, table], the table of ~/.aws/profile_cache.json
    op,           \* the last operation called, with its arguments
    ret,          \* what it returned
    io,           \* what the last operation touched: [reads, tokens, sdk, fed, role, steps, tier],
                  \* how many entries of the token memory tier it found and did not serve,
                  \* what open() of a configuration file answered, and the credentials
                  \* of the two runs that are compared
    prev,         \* the parse or listing before the last: [name, arg, skip, clean, same]
    dirty,        \* a configuration file or the marker changed since the last call
    writes,       \* how many times the configuration files and the marker were changed
    tasks,        \* request-handling tasks inside get_token of one SSOTokenCache:
                  \* task -> [pc, entry, token]
    host,         \* NativeMessagingHost.run: [stdin, stdout, pc, message, response, taken]
    attempts,     \* RateLimiter._attempts : token id -> the times of its failures
    running       \* a call in progress while other processes act: [pc, path, mtime,
                  \* data, skip, i]

vars == <<now, cred_file, config_file, nosso, sso_dir, boto3, impl, file_cache,
          memory_cache, url_cache, profile_cache, op, ret, io, prev, dirty, writes,
          tasks, host, attempts, running>>

(***************************************************************************)
(* Bounds of the model.                                                    *)
(***************************************************************************)
MaxTime == 3

MaxWrites == 3

Times == 0..MaxTime

(***************************************************************************)
(* Values.  A profile name is the text between the brackets of a section   *)
(* header, kept as <<prefix, base>>: "[profile dev]" is <<"profile","dev">>*)
(* and "[dev]" is <<"", "dev">>.  None is NoneS (strings), NoneT (times).  *)
(***************************************************************************)
NoneS == "None"
NoneT == 0 - 1
NoName == <<"", "">>

Get(d, k, default) == IF k \in DOMAIN d THEN d[k] ELSE default

\* Python truthiness of a string-or-None value
Truthy(v) == v # "" /\ v # NoneS

Put(d, k, v) == [x \in (DOMAIN d) \cup {k} |-> IF x = k THEN v ELSE d[x]]

Pop(d, ks) == [x \in (DOMAIN d) \ ks |-> d[x]]

EmptyDict == [x \in {} |-> ""]

(***************************************************************************)
(* Lines of an INI file.                                                   *)
(***************************************************************************)
Hdr(prefix, base) == [k |-> "hdr", key |-> prefix, val |-> base, t |-> 0]
KV(key, val) == [k |-> "kv", key |-> key, val |-> val, t |-> 0]
Expires(t) == [k |-> "exp", key |-> "", val |-> "", t |-> t]
Junk == [k |-> "junk", key |-> "", val |-> "", t |-> 0]

HeaderText(line) == <<line.key, line.val>>

CredentialKeys == {"aws_access_key_id", "aws_secret_access_key", "aws_session_token"}

SsoKeys == {"sso_start_url", "sso_session", "sso_region", "sso_account_id", "sso_role_name"}

(***************************************************************************)
(* INIFileParser and its two subclasses (kind "cred" / "config").          *)
(***************************************************************************)
IsSectionHeader(line) == line.k = "hdr"

CredExtractProfileName(line) == HeaderText(line)

ConfigExtractProfileName(line) ==
    IF line.key = "profile" THEN <<"", line.val>> ELSE HeaderText(line)

ExtractProfileName(kind, line) ==
    IF kind = "cred" THEN CredExtractProfileName(line) ELSE ConfigExtractProfileName(line)

CredCreateProfileData(name) ==
    [name |-> name, has_credentials |-> FALSE, expiration |-> NoneT, expired |-> FALSE]

ConfigCreateProfileData(name) ==
    [name |-> name, has_credentials |-> FALSE, expiration |-> NoneT, expired |-> FALSE,
     is_sso |-> FALSE]

CreateProfileData(kind, name) ==
    IF kind = "cred" THEN CredCreateProfileData(name) ELSE ConfigCreateProfileData(name)

\* _parse_expiration: the comment's time, and expired = time < now
ParseExpiration(line, clock) == [expiration |-> line.t, expired |-> line.t < clock]

\* a _parse_line that keeps the value of a credential key in the profile
CredParseLineKeepsValue(line, pd, clock) ==
    IF line.k = "kv" /\ line.key \in CredentialKeys
    THEN Put([pd EXCEPT !.has_credentials = TRUE], line.key, line.val)
    ELSE pd

\* CredentialsFileParser._parse_line
CredParseLine(line, pd, clock) ==
    IF line.k = "exp"
    THEN [pd EXCEPT !.expiration = ParseExpiration(line, clock).expiration,
                    !.expired = ParseExpiration(line, clock).expired]
    ELSE IF line.k = "kv" /\ line.key \in CredentialKeys
         THEN [pd EXCEPT !.has_credentials = TRUE]
         ELSE pd

ConfigParseLine(line, pd) ==
    IF line.k # "kv" THEN pd
    ELSE IF line.key = "sso_start_url"
         THEN Put(Put(pd, "is_sso", TRUE), "sso_start_url", line.val)
    ELSE IF line.key = "sso_session"
         THEN Put(Put(pd, "is_sso", TRUE), "sso_session", line.val)
    ELSE IF line.key \in {"sso_region", "sso_account_id", "sso_role_name"}
         THEN Put(pd, line.key, line.val)
    ELSE IF line.key = "region"
         THEN Put(pd, "aws_region", line.val)
    ELSE pd

\* parse_config_file of the legacy script: no sso_session
LegacyConfigParseLine(line, pd) ==
    IF line.k # "kv" THEN pd
    ELSE IF line.key = "sso_start_url"
         THEN Put(Put(pd, "is_sso", TRUE), "sso_start_url", line.val)
    ELSE IF line.key \in {"sso_region", "sso_account_id", "sso_role_name"}
         THEN Put(pd, line.key, line.val)
    ELSE IF line.key = "region"
         THEN Put(pd, "aws_region", line.val)
    ELSE pd

ParseLine(kind, line, pd, clock) ==
    IF kind = "cred" THEN CredParseLine(line, pd, clock)
    ELSE IF kind = "legacy" THEN LegacyConfigParseLine(line, pd)
    ELSE ConfigParseLine(line, pd)

ShouldIncludeProfile(kind, pd) ==
    IF kind = "cred" THEN TRUE
    ELSE IF kind = "legacy" THEN Truthy(Get(pd, "sso_start_url", NoneS))
    ELSE Get(pd, "is_sso", FALSE)

RECURSIVE ParseLoop(_, _, _, _, _, _, _)
ParseLoop(kind, lines, i, profiles, current, pd, clock) ==
    IF i > Len(lines)
    THEN IF current # NoName /\ ShouldIncludeProfile(kind, pd)
         THEN Append(profiles, pd) ELSE profiles
    ELSE IF IsSectionHeader(lines[i])
         THEN ParseLoop(kind, lines, i + 1,
                        IF current # NoName /\ ShouldIncludeProfile(kind, pd)
                        THEN Append(profiles, pd) ELSE profiles,
                        ExtractProfileName(kind, lines[i]),
                        CreateProfileData(kind, ExtractProfileName(kind, lines[i])),
                        clock)
         ELSE IF current # NoName
              THEN ParseLoop(kind, lines, i + 1, profiles, current,
                             ParseLine(kind, lines[i], pd, clock), clock)
              ELSE ParseLoop(kind, lines, i + 1, profiles, current, pd, clock)

ParseFile(kind, lines, clock) ==
    ParseLoop(kind, lines, 1, <<>>, NoName, EmptyDict, clock)


(***************************************************************************)
(* ProfileConfigReader: one profile's section, read straight from the      *)
(* file on every call (no cache).  An empty dict stands for None.          *)
(***************************************************************************)
RECURSIVE ReadCredentialsLoop(_, _, _, _, _)
ReadCredentialsLoop(lines, name, i, in_profile, credentials) ==
    IF i > Len(lines) THEN credentials
    ELSE IF lines[i].k = "hdr" /\ HeaderText(lines[i]) = name
         THEN ReadCredentialsLoop(lines, name, i + 1, TRUE, credentials)
    ELSE IF lines[i].k = "hdr"
         THEN IF in_profile THEN credentials
              ELSE ReadCredentialsLoop(lines, name, i + 1, FALSE, credentials)
    ELSE IF in_profile /\ lines[i].k = "kv" /\ lines[i].key \in CredentialKeys
         THEN ReadCredentialsLoop(lines, name, i + 1, in_profile,
                                  Put(credentials, lines[i].key, lines[i].val))
    ELSE ReadCredentialsLoop(lines, name, i + 1, in_profile, credentials)

RECURSIVE ReadConfigLoop(_, _, _, _, _)
ReadConfigLoop(lines, name, i, in_profile, profile_config) ==
    IF i > Len(lines) THEN profile_config
    ELSE IF lines[i].k = "hdr" /\ ConfigExtractProfileName(lines[i]) = name
         THEN ReadConfigLoop(lines, name, i + 1, TRUE, profile_config)
    ELSE IF lines[i].k = "hdr"
         THEN IF in_profile THEN profile_config
              ELSE ReadConfigLoop(lines, name, i + 1, FALSE, profile_config)
    ELSE IF in_profile /\ lines[i].k = "kv"
         THEN ReadConfigLoop(lines, name, i + 1, in_profile,
                             Put(profile_config, lines[i].key, lines[i].val))
    ELSE ReadConfigLoop(lines, name, i + 1, in_profile, profile_config)

(***************************************************************************)
(* The files the model writes.  A file is [exists, mtime, content], the    *)
(* content an index into the contents below.                               *)
(***************************************************************************)
CredContents ==
    << << Hdr("", "default"), KV("aws_access_key_id", "AK1"),
          KV("aws_secret_access_key", "SK1") >>,
       << Hdr("", "dev"), Expires(2), KV("aws_access_key_id", "AK2"),
          KV("aws_secret_access_key", "SK2"), KV("aws_session_token", "ST2") >>,
       << Hdr("", "dev"), KV("aws_access_key_id", "AK1"),
          KV("aws_secret_access_key", "SK1"),
          Hdr("", "ops"), KV("aws_access_key_id", "AK3") >>,
       << Junk, Hdr("", "dev"), KV("region", "r1") >>,
       << Hdr("", "dev"), KV("aws_access_key_id", "AK1"),
          KV("aws_secret_access_key", "SK1"),
          Hdr("", "dev"), KV("aws_access_key_id", "AK2") >> >>

\* the contents in which no section header is repeated
PlainContents == 1..4

ConfigContents ==
    << << Hdr("profile", "dev"), KV("sso_start_url", "u1"), KV("sso_region", "r1"),
          KV("sso_account_id", "a1"), KV("sso_role_name", "role1"), KV("region", "r2") >>,
       << Hdr("profile", "dev"), KV("sso_session", "s1"), KV("sso_account_id", "a1"),
          KV("sso_role_name", "role1"),
          Hdr("sso-session", "s1"), KV("sso_start_url", "u1") >>,
       << Hdr("profile", "dev"), KV("region", "r2"), KV("output", "json"),
          Hdr("", "default"), KV("region", "r1") >>,
       << Hdr("profile", "dev"), KV("sso_start_url", "u1"),
          KV("sso_account_id", "a1"), KV("sso_role_name", "role1"),
          Hdr("profile", "ops"), KV("sso_start_url", "u2"),
          KV("sso_account_id", "a2") >>,
       << Hdr("profile", "dev"), KV("sso_start_url", "u1"),
          KV("sso_account_id", "a1"), KV("sso_role_name", "role1"),
          KV("output", "json") >> >>

Paths == {"cred", "config"}

Contents(path) == IF path = "cred" THEN CredContents ELSE ConfigContents

Lines(path, file) == Contents(path)[file.content]

FileOf(path) == IF path = "cred" THEN cred_file ELSE config_file

(***************************************************************************)
(* FileCache: parsed data kept with the file's mtime.                      *)
(***************************************************************************)
NoEntry == [has |-> FALSE, mtime |-> 0, data |-> <<>>]

FileCacheGetAnyMtime(file, entry) ==
    IF ~file.exists THEN [found |-> FALSE, data |-> <<>>]
    ELSE IF entry.has
         THEN [found |-> TRUE, data |-> entry.data]
         ELSE [found |-> FALSE, data |-> <<>>]

FileCacheGet(file, entry) ==
    IF ~file.exists THEN [found |-> FALSE, data |-> <<>>]
    ELSE IF entry.has /\ entry.mtime = file.mtime
         THEN [found |-> TRUE, data |-> entry.data]
         ELSE [found |-> FALSE, data |-> <<>>]

FileCacheSet(cache, path, file, data) ==
    IF file.exists
    THEN [cache EXCEPT ![path] = [has |-> TRUE, mtime |-> file.mtime, data |-> data]]
    ELSE cache

\* INIFileParser.parse: the result, the cache after the call, the paths whose
\* content was read
Parse(path, file, cache, clock) ==
    LET Hit(cached) ==
            IF cached.found
            THEN [ret |-> cached.data, cache |-> cache, reads |-> <<>>]
            ELSE IF ~file.exists
                 THEN [ret |-> <<>>, cache |-> cache, reads |-> <<>>]
                 ELSE LET Parsed(profiles) ==
                              [ret |-> profiles,
                               cache |-> FileCacheSet(cache, path, file, profiles),
                               reads |-> <<path>>]
                      IN  Parsed(ParseFile(path, Lines(path, file), clock))
    IN  Hit(FileCacheGet(file, cache[path]))

\* ProfileConfigReader.get_credentials / get_config
GetCredentialsOfFile(file, name) ==
    IF ~file.exists THEN [ret |-> EmptyDict, reads |-> <<>>]
    ELSE [ret |-> ReadCredentialsLoop(Lines("cred", file), name, 1, FALSE, EmptyDict),
          reads |-> <<"cred">>]

GetConfig(file, name) ==
    IF ~file.exists THEN [ret |-> EmptyDict, reads |-> <<>>]
    ELSE [ret |-> ReadConfigLoop(Lines("config", file), name, 1, FALSE, EmptyDict),
          reads |-> <<"config">>]


(***************************************************************************)
(* The identity provider's token directory.  A file is absent ("none"),    *)
(* unreadable as a JSON object ("bad") or a token ("tok"); a token without *)
(* the key expiresAt has expiresAt = NoneT, one without accessToken has    *)
(* accessToken = NoneS.                                                    *)
(***************************************************************************)
StartUrls == {"u1", "u2"}

TokenFileNames == {"f1", "f2"}

\* hashlib.sha1(start_url).hexdigest() + ".json"
CacheKey(start_url) == IF start_url = "u1" THEN "f1" ELSE "f2"

NoToken == [kind |-> "none", startUrl |-> "", expiresAt |-> NoneT, accessToken |-> NoneS]
BadFile == [kind |-> "bad", startUrl |-> "", expiresAt |-> NoneT, accessToken |-> NoneS]
Tok(u, e, a) == [kind |-> "tok", startUrl |-> u, expiresAt |-> e, accessToken |-> a]

TokenContents ==
    { Tok("u1", 2, "at1"), Tok("u2", 3, "at2"), Tok("u1", NoneT, "at3"),
      Tok("u1", 3, NoneS), BadFile }

\* In-memory cache TTL for SSO tokens: 30 seconds, ticks of 15 seconds here
DEFAULT_CACHE_TTL_SECONDS == 2

NoMemory == [has |-> FALSE, token |-> NoToken, cache_time |-> 0]

\* the request-handling tasks that may share one SSOTokenCache
Tasks == {1, 2}

\* a task outside get_token
Idle == [pc |-> "idle", entry |-> NoMemory, token |-> NoToken]

IsTokenValidAtExpiry(token, clock) ==
    IF token.expiresAt = NoneT THEN FALSE ELSE token.expiresAt >= clock

IsTokenValid(token, clock) ==
    IF token.expiresAt = NoneT THEN FALSE ELSE token.expiresAt > clock

\* _get_from_memory without the freshness test
GetFromMemoryAnyAge(mc, start_url, clock) ==
    IF ~mc[start_url].has THEN [token |-> NoToken, mc |-> mc]
    ELSE IF ~IsTokenValid(mc[start_url].token, clock)
         THEN [token |-> NoToken, mc |-> [mc EXCEPT ![start_url] = NoMemory]]
    ELSE [token |-> mc[start_url].token, mc |-> mc]

\* _get_from_memory: the token (NoToken for None) and the memory cache after
GetFromMemory(mc, start_url, clock) ==
    IF ~mc[start_url].has THEN [token |-> NoToken, mc |-> mc]
    ELSE IF clock - mc[start_url].cache_time >= DEFAULT_CACHE_TTL_SECONDS
         THEN [token |-> NoToken, mc |-> [mc EXCEPT ![start_url] = NoMemory]]
    ELSE IF ~IsTokenValid(mc[start_url].token, clock)
         THEN [token |-> NoToken, mc |-> [mc EXCEPT ![start_url] = NoMemory]]
    ELSE [token |-> mc[start_url].token, mc |-> mc]

\* _get_by_hash: the file named after the start url, if it holds a valid token
GetByHash(dir, start_url, clock) ==
    LET f == dir.files[CacheKey(start_url)] IN
    IF f.kind = "none" THEN [token |-> NoToken, opened |-> {}]
    ELSE IF f.kind = "tok" /\ IsTokenValid(f, clock)
         THEN [token |-> f, opened |-> {CacheKey(start_url)}]
         ELSE [token |-> NoToken, opened |-> {CacheKey(start_url)}]

\* _search_cache_files over glob's listing `order`
RECURSIVE SearchCacheFiles(_, _, _, _, _, _)
SearchCacheFiles(dir, start_url, order, i, opened, clock) ==
    IF i > Len(order) THEN [token |-> NoToken, opened |-> opened]
    ELSE LET f == dir.files[order[i]] IN
         IF f.kind = "tok" /\ f.startUrl = start_url /\ IsTokenValid(f, clock)
         THEN [token |-> f, opened |-> opened \cup {order[i]}]
         ELSE SearchCacheFiles(dir, start_url, order, i + 1, opened \cup {order[i]}, clock)

\* _get_from_file
GetFromFile(dir, start_url, order, clock) ==
    IF ~dir.exists THEN [token |-> NoToken, opened |-> {}, tier |-> "none"]
    ELSE LET Scanned(s) ==
                 [token |-> s.token, opened |-> s.opened,
                  tier |-> IF s.token.kind = "tok" THEN "scan" ELSE "none"]
             Hashed(h) ==
                 IF h.token.kind = "tok"
                 THEN [token |-> h.token, opened |-> h.opened, tier |-> "hash"]
                 ELSE Scanned(SearchCacheFiles(dir, start_url, order, 1, h.opened, clock))
         IN  Hashed(GetByHash(dir, start_url, clock))

SaveToMemory(mc, start_url, token, clock) ==
    [mc EXCEPT ![start_url] = [has |-> TRUE, token |-> token, cache_time |-> clock]]

\* get_token without _save_to_memory
GetTokenNoPromotion(mc, dir, start_url, order, clock) ==
    LET FromFile(m, f) ==
            [token |-> f.token, mc |-> m.mc, opened |-> f.opened, tier |-> f.tier]
        FromMemory(m) ==
            IF m.token.kind = "tok"
            THEN [token |-> m.token, mc |-> m.mc, opened |-> {}, tier |-> "memory"]
            ELSE FromFile(m, GetFromFile(dir, start_url, order, clock))
    IN  FromMemory(GetFromMemory(mc, start_url, clock))

\* SSOTokenCache.get_token
GetToken(mc, dir, start_url, order, clock) ==
    LET FromFile(m, f) ==
            IF f.token.kind = "tok"
            THEN [token |-> f.token, mc |-> SaveToMemory(m.mc, start_url, f.token, clock),
                  opened |-> f.opened, tier |-> f.tier]
            ELSE [token |-> NoToken, mc |-> m.mc, opened |-> f.opened, tier |-> "none"]
        FromMemory(m) ==
            IF m.token.kind = "tok"
            THEN [token |-> m.token, mc |-> m.mc, opened |-> {}, tier |-> "memory"]
            ELSE FromFile(m, GetFromFile(dir, start_url, order, clock))
    IN  FromMemory(GetFromMemory(mc, start_url, clock))

\* the listings glob('*.json') can give: the files present, in any order
RECURSIVE Orders(_)
Orders(S) ==
    IF S = {} THEN {<<>>}
    ELSE UNION {{<<x>> \o o : o \in Orders(S \ {x})} : x \in S}

GlobOrders(dir) == Orders({f \in TokenFileNames : dir.files[f].kind # "none"})


(***************************************************************************)
(* SSOProfileEnricher.enrich_profile.  The state a listing threads through *)
(* its steps is st = [cache, mc, reads, tokens, opened].                   *)
(***************************************************************************)
EnrichProfile(profile, st, order, clock) ==
    IF ~Get(profile, "is_sso", FALSE) \/ ~Truthy(Get(profile, "sso_start_url", NoneS))
    THEN [profile |-> profile, st |-> st]
    ELSE LET Resolved(r) ==
                 [profile |->
                     IF r.token.kind = "tok" /\ r.token.expiresAt # NoneT
                     THEN Put(Put(Put(profile, "expiration", r.token.expiresAt),
                                  "expired", r.token.expiresAt < clock),
                              "has_credentials", ~(r.token.expiresAt < clock))
                     ELSE Put(Put(profile, "expired", TRUE), "has_credentials", FALSE),
                  st |-> [st EXCEPT !.mc = r.mc, !.tokens = @ + 1,
                                    !.opened = @ \cup r.opened]]
         IN  Resolved(GetToken(st.mc, sso_dir, profile.sso_start_url, order, clock))

RECURSIVE EnrichAll(_, _, _, _, _, _)
EnrichAll(profiles, i, acc, st, order, clock) ==
    IF i > Len(profiles) THEN [profiles |-> acc, st |-> st]
    ELSE LET Next(e) ==
                 EnrichAll(profiles, i + 1, Append(acc, e.profile), e.st, order, clock)
         IN  Next(EnrichProfile(profiles[i], st, order, clock))

(***************************************************************************)
(* ProfileAggregator (api-server: core/credentials.py, native-messaging:   *)
(* credential_provider.py).                                                *)
(***************************************************************************)
\* all_profiles[profile["name"]] = profile, on a dict kept in insertion order
RECURSIVE DictSet(_, _, _)
DictSet(all_profiles, profile, i) ==
    IF i > Len(all_profiles) THEN Append(all_profiles, profile)
    ELSE IF all_profiles[i].name = profile.name
         THEN [all_profiles EXCEPT ![i] = profile]
         ELSE DictSet(all_profiles, profile, i + 1)

RECURSIVE DictSetAll(_, _, _)
DictSetAll(all_profiles, profiles, i) ==
    IF i > Len(profiles) THEN all_profiles
    ELSE DictSetAll(DictSet(all_profiles, profiles[i], 1), profiles, i + 1)

\* the merge of _get_profiles_manual: SSO profiles take precedence
MergeProfiles(cred_profiles, sso_profiles) ==
    DictSetAll(DictSetAll(<<>>, cred_profiles, 1), sso_profiles, 1)

NeverSkipSsoProfiles(program) == FALSE

\* _should_skip_sso_profiles: only the api-server's aggregator knows the marker
ShouldSkipSsoProfiles(program) == program = "api" /\ nosso

\* the parsed list is the cached list object: enriching its profiles in place
\* changes the cache entry too
EnrichedInPlace(cache, path, file, profiles) ==
    IF file.exists /\ cache[path].has
    THEN [cache EXCEPT ![path].data = profiles] ELSE cache

GetProfilesManual(program, skip_sso_enrichment, st, order, clock) ==
    LET Merged(c, s, e) ==
            [profiles |-> MergeProfiles(c.ret, e.profiles),
             st |-> [e.st EXCEPT !.cache =
                        EnrichedInPlace(@, "config", config_file, e.profiles)]]
        WithConfig(c, s) ==
            Merged(c, s,
                   IF skip_sso_enrichment
                   THEN [profiles |-> s.ret,
                         st |-> [st EXCEPT !.cache = s.cache,
                                           !.reads = @ \o c.reads \o s.reads]]
                   ELSE EnrichAll(s.ret, 1, <<>>,
                                  [st EXCEPT !.cache = s.cache,
                                             !.reads = @ \o c.reads \o s.reads],
                                  order, clock))
        WithCredentials(c) ==
            IF ShouldSkipSsoProfiles(program)
            THEN [profiles |-> c.ret,
                  st |-> [st EXCEPT !.cache = c.cache, !.reads = @ \o c.reads]]
            ELSE WithConfig(c, Parse("config", config_file, c.cache, clock))
    IN  WithCredentials(Parse("cred", cred_file, st.cache, clock))

\* {p["name"]: p for p in parse()}[name]: the last profile of that name
RECURSIVE LookupLast(_, _, _)
LookupLast(profiles, name, i) ==
    IF i = 0 THEN EmptyDict
    ELSE IF profiles[i].name = name THEN profiles[i]
    ELSE LookupLast(profiles, name, i - 1)

NewProfileData(name) ==
    [name |-> name, has_credentials |-> FALSE, expiration |-> NoneT, expired |-> FALSE,
     is_sso |-> FALSE]

\* the test for SSO markers in _build_profile_info
HasSsoMarkers(program, profile_config) ==
    IF program = "api"
    THEN "sso_start_url" \in DOMAIN profile_config \/ "sso_session" \in DOMAIN profile_config
    ELSE Truthy(Get(profile_config, "sso_start_url", NoneS))
         \/ Truthy(Get(profile_config, "sso_session", NoneS))

SsoProfileData(program, name, profile_config) ==
    LET p0 == [NewProfileData(name) EXCEPT !.is_sso = TRUE,
                                           !.has_credentials = (program = "api")]
        p1 == IF "sso_start_url" \in DOMAIN profile_config
              THEN Put(p0, "sso_start_url", profile_config.sso_start_url) ELSE p0
        p2 == IF "sso_session" \in DOMAIN profile_config
              THEN Put(p1, "sso_session", profile_config.sso_session) ELSE p1
    IN  Put(Put(Put(Put(p2, "sso_region", Get(profile_config, "sso_region", "us-east-1")),
                    "sso_account_id", Get(profile_config, "sso_account_id", NoneS)),
                "sso_role_name", Get(profile_config, "sso_role_name", NoneS)),
            "aws_region", Get(profile_config, "region", NoneS))

CredProfileData(name, st, clock) ==
    LET Found(c, cred_profile) ==
            [profile |->
                IF cred_profile = EmptyDict THEN NewProfileData(name)
                ELSE [NewProfileData(name) EXCEPT
                         !.has_credentials = cred_profile.has_credentials,
                         !.expiration = cred_profile.expiration,
                         !.expired = cred_profile.expired],
             st |-> [st EXCEPT !.cache = c.cache, !.reads = @ \o c.reads]]
        Parsed(c) == Found(c, LookupLast(c.ret, name, Len(c.ret)))
    IN  Parsed(Parse("cred", cred_file, st.cache, clock))

\* _build_profile_info: [some, profile, st]; some = FALSE for None
BuildProfileInfo(program, name, skip_sso_enrichment, st, order, clock) ==
    LET Some(e) == [some |-> TRUE, profile |-> e.profile, st |-> e.st]
        WithConfig(g, st1) ==
            IF g.ret # EmptyDict /\ HasSsoMarkers(program, g.ret)
            THEN IF ShouldSkipSsoProfiles(program)
                 THEN [some |-> FALSE, profile |-> EmptyDict, st |-> st1]
                 ELSE IF skip_sso_enrichment
                      THEN [some |-> TRUE, profile |-> SsoProfileData(program, name, g.ret),
                            st |-> st1]
                      ELSE Some(EnrichProfile(SsoProfileData(program, name, g.ret),
                                              st1, order, clock))
            ELSE Some(CredProfileData(name, st1, clock))
        Read(g) == WithConfig(g, [st EXCEPT !.reads = @ \o g.reads])
    IN  Read(GetConfig(config_file, name))

RECURSIVE BuildAll(_, _, _, _, _, _, _, _)
BuildAll(program, names, i, acc, skip_sso_enrichment, st, order, clock) ==
    IF i > Len(names) THEN [profiles |-> acc, st |-> st]
    ELSE LET Next(b) ==
                 BuildAll(program, names, i + 1,
                          IF b.some THEN Append(acc, b.profile) ELSE acc,
                          skip_sso_enrichment, b.st, order, clock)
         IN  Next(BuildProfileInfo(program, names[i], skip_sso_enrichment, st,
                                   order, clock))

\* boto3.Session().available_profiles: the sections of the credentials file and
\* the "profile X" and "default" sections of the config file
RECURSIVE SectionNames(_, _, _, _)
SectionNames(path, lines, i, acc) ==
    IF i > Len(lines) THEN acc
    ELSE IF lines[i].k = "hdr"
            /\ (path = "cred" \/ lines[i].key = "profile"
                \/ HeaderText(lines[i]) = <<"", "default">>)
            /\ \A j \in 1..Len(acc) : acc[j] # ConfigExtractProfileName(lines[i])
         THEN SectionNames(path, lines, i + 1,
                           Append(acc, ConfigExtractProfileName(lines[i])))
         ELSE SectionNames(path, lines, i + 1, acc)

AvailableProfiles ==
    SectionNames("config",
                 IF config_file.exists THEN Lines("config", config_file) ELSE <<>>, 1,
                 SectionNames("cred",
                              IF cred_file.exists THEN Lines("cred", cred_file) ELSE <<>>,
                              1, <<>>))

\* _get_profiles_with_boto3; sdk_ok = FALSE is the SDK raising
GetProfilesWithBoto3(program, skip_sso_enrichment, st, order, clock, sdk_ok) ==
    IF sdk_ok
    THEN BuildAll(program, AvailableProfiles, 1, <<>>, skip_sso_enrichment, st, order, clock)
    ELSE GetProfilesManual(program, skip_sso_enrichment, st, order, clock)

GetAllProfilesAlwaysFull(program, skip_sso_enrichment, st, order, clock, sdk_ok) ==
    IF boto3
    THEN GetProfilesWithBoto3(program, FALSE, st, order, clock, sdk_ok)
    ELSE GetProfilesManual(program, FALSE, st, order, clock)

\* ProfileAggregator.get_all_profiles
GetAllProfiles(program, skip_sso_enrichment, st, order, clock, sdk_ok) ==
    IF boto3
    THEN GetProfilesWithBoto3(program, skip_sso_enrichment, st, order, clock, sdk_ok)
    ELSE GetProfilesManual(program, skip_sso_enrichment, st, order, clock)

(***************************************************************************)
(* The legacy script native-messaging/aws_profile_bridge.py: one class     *)
(* with its own parse caches and token cache.                              *)
(***************************************************************************)
\* parse_credentials_file / parse_config_file
LegacyParse(path, file, cache, clock) ==
    IF ~file.exists THEN [ret |-> <<>>, cache |-> cache, reads |-> <<>>]
    ELSE IF cache[path].has /\ cache[path].mtime = file.mtime
         THEN [ret |-> cache[path].data, cache |-> cache, reads |-> <<>>]
         ELSE LET Parsed(profiles) ==
                      [ret |-> profiles,
                       cache |-> [cache EXCEPT ![path] =
                                     [has |-> TRUE, mtime |-> file.mtime,
                                      data |-> profiles]],
                       reads |-> <<path>>]
              IN  Parsed(ParseFile(IF path = "config" THEN "legacy" ELSE "cred",
                                   Lines(path, file), clock))

RECURSIVE LegacySearch(_, _, _, _, _, _)
LegacySearch(dir, start_url, order, i, opened, clock) ==
    IF i > Len(order) THEN [token |-> NoToken, opened |-> opened]
    ELSE IF order[i] = CacheKey(start_url)
         THEN LegacySearch(dir, start_url, order, i + 1, opened, clock)
    ELSE LET f == dir.files[order[i]] IN
         IF f.kind = "tok" /\ f.startUrl = start_url /\ f.expiresAt # NoneT
            /\ f.expiresAt > clock
         THEN [token |-> f, opened |-> opened \cup {order[i]}]
         ELSE LegacySearch(dir, start_url, order, i + 1, opened \cup {order[i]}, clock)

\* get_sso_cached_token
LegacyGetSsoCachedToken(mc, dir, start_url, order, clock) ==
    IF ~dir.exists THEN [token |-> NoToken, mc |-> mc, opened |-> {}, tier |-> "none"]
    ELSE IF mc[start_url].has
            /\ clock - mc[start_url].cache_time < DEFAULT_CACHE_TTL_SECONDS
            /\ mc[start_url].token.expiresAt # NoneT
            /\ mc[start_url].token.expiresAt > clock
         THEN [token |-> mc[start_url].token, mc |-> mc, opened |-> {}, tier |-> "memory"]
    ELSE LET Searched(r) ==
                 [token |-> r.token,
                  mc |-> IF r.token.kind = "tok"
                         THEN SaveToMemory(mc, start_url, r.token, clock) ELSE mc,
                  opened |-> r.opened,
                  tier |-> IF r.token.kind = "tok" THEN "scan" ELSE "none"]
             Hashed(f, opened) ==
                 IF f.kind = "tok" /\ f.expiresAt # NoneT /\ f.expiresAt > clock
                 THEN [token |-> f, mc |-> SaveToMemory(mc, start_url, f, clock),
                       opened |-> opened, tier |-> "hash"]
                 ELSE Searched(LegacySearch(dir, start_url, order, 1, opened, clock))
         IN  Hashed(dir.files[CacheKey(start_url)],
                    IF dir.files[CacheKey(start_url)].kind = "none" THEN {}
                    ELSE {CacheKey(start_url)})

\* the token status written into an SSO profile by get_all_profiles
LegacyTokenStatus(profile, st, order, clock) ==
    LET Status(r) ==
            [profile |->
                IF r.token.kind = "tok" /\ r.token.expiresAt # NoneT
                THEN Put(Put(Put(profile, "expiration", r.token.expiresAt),
                             "expired", r.token.expiresAt < clock),
                         "has_credentials", ~(r.token.expiresAt < clock))
                ELSE Put(Put(profile, "expired", TRUE), "has_credentials", FALSE),
             st |-> [st EXCEPT !.mc = r.mc, !.tokens = @ + 1,
                               !.opened = @ \cup r.opened]]
    IN  Status(LegacyGetSsoCachedToken(st.mc, sso_dir, profile.sso_start_url, order, clock))

RECURSIVE LegacyStatusAll(_, _, _, _, _, _)
LegacyStatusAll(profiles, i, acc, st, order, clock) ==
    IF i > Len(profiles) THEN [profiles |-> acc, st |-> st]
    ELSE LET Next(e) ==
                 LegacyStatusAll(profiles, i + 1, Append(acc, e.profile), e.st,
                                 order, clock)
         IN  Next(LegacyTokenStatus(profiles[i], st, order, clock))

\* the merge of the legacy script: SSO profiles first, credentials profiles after
LegacyMerge(cred_profiles, sso_profiles) ==
    DictSetAll(DictSetAll(<<>>, sso_profiles, 1), cred_profiles, 1)

LegacyManual(st, order, clock) ==
    LET Merged(c, e) ==
            [profiles |-> LegacyMerge(c.ret, e.profiles),
             st |-> [e.st EXCEPT !.cache =
                        EnrichedInPlace(@, "config", config_file, e.profiles)]]
        WithConfig(c, s) ==
            Merged(c, LegacyStatusAll(s.ret, 1, <<>>,
                                      [st EXCEPT !.cache = s.cache,
                                                 !.reads = @ \o c.reads \o s.reads],
                                      order, clock))
        WithCredentials(c) ==
            WithConfig(c, LegacyParse("config", config_file, c.cache, clock))
    IN  WithCredentials(LegacyParse("cred", cred_file, st.cache, clock))

LegacyProfile(name, st, order, clock) ==
    LET Found(c, cred_profile, st1) ==
            [profile |->
                IF cred_profile = EmptyDict THEN NewProfileData(name)
                ELSE [NewProfileData(name) EXCEPT
                         !.has_credentials = cred_profile.has_credentials,
                         !.expiration = cred_profile.expiration,
                         !.expired = cred_profile.expired],
             st |-> [st1 EXCEPT !.cache = c.cache, !.reads = @ \o c.reads]]
        Parsed(c, st1) == Found(c, LookupLast(c.ret, name, Len(c.ret)), st1)
        WithConfig(g, st1) ==
            IF g.ret # EmptyDict /\ "sso_start_url" \in DOMAIN g.ret
            THEN LegacyTokenStatus(
                     Put(Put(Put(Put(Put(
                         [NewProfileData(name) EXCEPT !.is_sso = TRUE],
                         "sso_start_url", g.ret.sso_start_url),
                         "sso_region", Get(g.ret, "sso_region", "us-east-1")),
                         "sso_account_id", Get(g.ret, "sso_account_id", NoneS)),
                         "sso_role_name", Get(g.ret, "sso_role_name", NoneS)),
                         "aws_region", Get(g.ret, "region", NoneS)),
                     st1, order, clock)
            ELSE Parsed(LegacyParse("cred", cred_file, st1.cache, clock), st1)
        Read(g) == WithConfig(g, [st EXCEPT !.reads = @ \o g.reads])
    IN  Read(GetConfig(config_file, name))

RECURSIVE LegacyBuildAll(_, _, _, _, _, _)
LegacyBuildAll(names, i, acc, st, order, clock) ==
    IF i > Len(names) THEN [profiles |-> acc, st |-> st]
    ELSE LET Next(b) ==
                 LegacyBuildAll(names, i + 1, Append(acc, b.profile), b.st, order, clock)
         IN  Next(LegacyProfile(names[i], st, order, clock))

\* AWSProfileBridge.get_all_profiles of the legacy script
LegacyGetAllProfiles(st, order, clock, sdk_ok) ==
    IF boto3 /\ sdk_ok
    THEN LegacyBuildAll(AvailableProfiles, 1, <<>>, st, order, clock)
    ELSE LegacyManual(st, order, clock)

(***************************************************************************)
(* SSOCredentialsProvider.get_credentials and CredentialProvider           *)
(* .get_credentials.  A resolution gives the credentials (EmptyDict for    *)
(* None), the sources tried in order (steps) and what each cost.  The      *)
(* SDK's answer `sdk` and the exchange endpoint's answer `net` are inputs. *)
(***************************************************************************)
SdkAnswers == {"raise", "none", "long", "temp"}

SdkCredentials(sdk) ==
    IF sdk = "long"
    THEN [aws_access_key_id |-> "AKs", aws_secret_access_key |-> "SKs"]
    ELSE [aws_access_key_id |-> "AKs", aws_secret_access_key |-> "SKs",
          aws_session_token |-> "STs", expiry_time |-> "t3"]

\* _format_credentials
RoleCredentials ==
    [aws_access_key_id |-> "AKr", aws_secret_access_key |-> "SKr",
     aws_session_token |-> "STr", expiration |-> "t3"]

NoRes == [creds |-> EmptyDict, mc |-> memory_cache, reads |-> <<>>, steps |-> <<>>,
          tokens |-> 0, opened |-> {}, sdk |-> "", role |-> 0]

ValidateProfileConfig(profile_config) ==
    /\ Truthy(Get(profile_config, "sso_start_url", NoneS))
    /\ Truthy(Get(profile_config, "sso_account_id", NoneS))
    /\ Truthy(Get(profile_config, "sso_role_name", NoneS))

SsoGetCredentials(profile_config, res, order, clock, net) ==
    IF ~ValidateProfileConfig(profile_config) THEN res
    ELSE LET Exchange(res1) ==
                 [res1 EXCEPT !.steps = Append(@, "exchange"),
                              !.role = IF net THEN 2 ELSE 1,
                              !.creds = IF net THEN RoleCredentials ELSE EmptyDict]
             WithToken(r) ==
                 IF r.token.kind # "tok" \/ r.token.accessToken = NoneS
                 THEN [res EXCEPT !.mc = r.mc, !.tokens = @ + 1, !.opened = r.opened,
                                  !.steps = Append(@, "token")]
                 ELSE Exchange([res EXCEPT !.mc = r.mc, !.tokens = @ + 1,
                                           !.opened = r.opened,
                                           !.steps = Append(@, "token")])
         IN  WithToken(GetToken(res.mc, sso_dir, profile_config.sso_start_url,
                                order, clock))

\* fallbacks that take only a section with both keys for a success
GetCredentialsFromFilesWholeOnly(name, res, order, clock, net) ==
    LET WithConfig(g, res2) ==
            IF g.ret # EmptyDict /\ Truthy(Get(g.ret, "sso_start_url", NoneS))
            THEN SsoGetCredentials(g.ret, res2, order, clock, net)
            ELSE res2
        WithSection(c, res1) ==
            IF /\ Truthy(Get(c.ret, "aws_access_key_id", NoneS))
               /\ Truthy(Get(c.ret, "aws_secret_access_key", NoneS))
            THEN [res1 EXCEPT !.creds = c.ret]
            ELSE WithConfig(GetConfig(config_file, name),
                            [res1 EXCEPT
                                !.reads = @ \o GetConfig(config_file, name).reads,
                                !.steps = Append(@, "config")])
        Read(c) ==
            WithSection(c, [res EXCEPT !.reads = @ \o c.reads,
                                       !.steps = Append(@, "credfile")])
    IN  Read(GetCredentialsOfFile(cred_file, name))

\* the fallbacks after the SDK: the credentials file, then the SSO profile
GetCredentialsFromFiles(name, res, order, clock, net) ==
    LET WithConfig(g, res2) ==
            IF g.ret # EmptyDict /\ Truthy(Get(g.ret, "sso_start_url", NoneS))
            THEN SsoGetCredentials(g.ret, res2, order, clock, net)
            ELSE res2
        WithSection(c, res1) ==
            IF c.ret # EmptyDict THEN [res1 EXCEPT !.creds = c.ret]
            ELSE WithConfig(GetConfig(config_file, name),
                            [res1 EXCEPT
                                !.reads = @ \o GetConfig(config_file, name).reads,
                                !.steps = Append(@, "config")])
        Read(c) ==
            WithSection(c, [res EXCEPT !.reads = @ \o c.reads,
                                       !.steps = Append(@, "credfile")])
    IN  Read(GetCredentialsOfFile(cred_file, name))

GetCredentialsFilesFirst(program, name, order, clock, sdk, net) ==
    LET SdkLast(f) ==
            IF f.creds # EmptyDict \/ ~(program = "api" /\ boto3) THEN f
            ELSE [f EXCEPT !.steps = Append(@, "sdk"), !.sdk = sdk,
                           !.creds = IF sdk \in {"long", "temp"} THEN SdkCredentials(sdk)
                                     ELSE EmptyDict]
    IN  SdkLast(GetCredentialsFromFiles(name, NoRes, order, clock, net))

\* CredentialProvider.get_credentials
GetCredentials(program, name, order, clock, sdk, net) ==
    IF program = "api" /\ boto3
    THEN IF sdk \in {"long", "temp"}
         THEN [NoRes EXCEPT !.steps = <<"sdk">>, !.sdk = sdk,
                            !.creds = SdkCredentials(sdk)]
         ELSE GetCredentialsFromFiles(name,
                                      [NoRes EXCEPT !.steps = <<"sdk">>, !.sdk = sdk],
                                      order, clock, net)
    ELSE GetCredentialsFromFiles(name, NoRes, order, clock, net)

\* get_sso_credentials / get_profile_credentials_with_sso of the legacy script
LegacyGetSsoCredentials(profile_config, res, order, clock, net) ==
    IF ~Truthy(Get(profile_config, "sso_start_url", NoneS)) THEN res
    ELSE LET WithToken(r, res1) ==
                 IF r.token.kind # "tok" \/ r.token.accessToken = NoneS THEN res1
                 ELSE IF ~Truthy(Get(profile_config, "sso_account_id", NoneS))
                         \/ ~Truthy(Get(profile_config, "sso_role_name", NoneS))
                 THEN res1
                 ELSE [res1 EXCEPT !.steps = Append(@, "exchange"),
                                   !.role = IF net THEN 2 ELSE 1,
                                   !.creds = IF net THEN RoleCredentials ELSE EmptyDict]
             Looked(r) ==
                 WithToken(r, [res EXCEPT !.mc = r.mc, !.tokens = @ + 1,
                                          !.opened = r.opened,
                                          !.steps = Append(@, "token")])
         IN  Looked(LegacyGetSsoCachedToken(res.mc, sso_dir, profile_config.sso_start_url,
                                            order, clock))

LegacyGetCredentials(name, order, clock, net) ==
    LET WithConfig(g, res2) ==
            IF g.ret # EmptyDict /\ "sso_start_url" \in DOMAIN g.ret
            THEN LegacyGetSsoCredentials(g.ret, res2, order, clock, net)
            ELSE res2
        WithSection(c, res1) ==
            IF c.ret # EmptyDict THEN [res1 EXCEPT !.creds = c.ret]
            ELSE WithConfig(GetConfig(config_file, name),
                            [res1 EXCEPT
                                !.reads = @ \o GetConfig(config_file, name).reads,
                                !.steps = Append(@, "config")])
        Read(c) ==
            WithSection(c, [NoRes EXCEPT !.reads = c.reads, !.steps = <<"credfile">>])
    IN  Read(GetCredentialsOfFile(cred_file, name))

(***************************************************************************)
(* ConsoleURLGenerator and ProfileConsoleURLGenerator.  The federation     *)
(* endpoint's answer `fed` is an input: "fail" or a signin token.          *)
(***************************************************************************)
FedAnswers == {"fail", "s1", "s2"}

ConsoleUrl == "https://console.aws.amazon.com/"

BuildConsoleUrl(signin_token) ==
    IF signin_token = "s1" THEN "federation?SigninToken=s1" ELSE "federation?SigninToken=s2"

ValidateCredentials(credentials) ==
    IF ~Truthy(Get(credentials, "aws_access_key_id", NoneS))
    THEN "Missing aws_access_key_id"
    ELSE IF ~Truthy(Get(credentials, "aws_secret_access_key", NoneS))
         THEN "Missing aws_secret_access_key"
         ELSE ""

GenerateUrlAlwaysFederates(credentials, fed) ==
    IF ValidateCredentials(credentials) # ""
    THEN [url |-> "", error |-> ValidateCredentials(credentials), fed |-> 0]
    ELSE IF fed = "fail"
         THEN [url |-> "", error |-> "Failed to get federation token from AWS", fed |-> 1]
         ELSE [url |-> BuildConsoleUrl(fed), error |-> "", fed |-> 1]

\* ConsoleURLGenerator.generate_url
GenerateUrl(credentials, fed) ==
    IF ValidateCredentials(credentials) # ""
    THEN [url |-> "", error |-> ValidateCredentials(credentials), fed |-> 0]
    ELSE IF ~Truthy(Get(credentials, "aws_session_token", NoneS))
         THEN [url |-> ConsoleUrl, error |-> "", fed |-> 0]
    ELSE IF fed = "fail"
         THEN [url |-> "", error |-> "Failed to get federation token from AWS", fed |-> 1]
         ELSE [url |-> BuildConsoleUrl(fed), error |-> "", fed |-> 1]

\* generate_console_url of the legacy script
LegacyGenerateUrl(credentials, fed) ==
    IF ~Truthy(Get(credentials, "aws_access_key_id", NoneS))
       \/ ~Truthy(Get(credentials, "aws_secret_access_key", NoneS))
    THEN [url |-> "", error |-> "Incomplete credentials for profile", fed |-> 0]
    ELSE IF ~Truthy(Get(credentials, "aws_session_token", NoneS))
         THEN [url |-> ConsoleUrl, error |-> "", fed |-> 0]
    ELSE IF fed = "fail"
         THEN [url |-> "", error |-> "Failed to get federation token from AWS", fed |-> 1]
         ELSE [url |-> BuildConsoleUrl(fed), error |-> "", fed |-> 1]

\* the text of the error returned when no credentials were resolved
NoCredentialsMessage(name) ==
    <<"No credentials found for profile: ", name[2],
      ". For SSO profiles, run: aws sso login --profile ", name[2]>>

\* generate_url handing whatever was resolved to the URL generator
ProfileGenerateUrlUnchecked(program, name, order, clock, sdk, net, fed) ==
    LET Generated(res, out) == [res |-> res, out |-> out, message |-> <<out.error>>]
        Resolved(res) ==
            Generated(res, IF program = "legacy" THEN LegacyGenerateUrl(res.creds, fed)
                           ELSE GenerateUrl(res.creds, fed))
    IN  Resolved(IF program = "legacy" THEN LegacyGetCredentials(name, order, clock, net)
                 ELSE GetCredentials(program, name, order, clock, sdk, net))

\* ProfileConsoleURLGenerator.generate_url: res of the resolution, the answer, and
\* the text of its error
ProfileGenerateUrl(program, name, order, clock, sdk, net, fed) ==
    LET Generated(res, out) == [res |-> res, out |-> out, message |-> <<out.error>>]
        Resolved(res) ==
            IF res.creds = EmptyDict
            THEN [res |-> res,
                  out |-> [url |-> "", error |-> "No credentials found for profile",
                           fed |-> 0],
                  message |-> NoCredentialsMessage(name)]
            ELSE Generated(res, IF program = "legacy" THEN LegacyGenerateUrl(res.creds, fed)
                                ELSE GenerateUrl(res.creds, fed))
    IN  Resolved(IF program = "legacy" THEN LegacyGetCredentials(name, order, clock, net)
                 ELSE GetCredentials(program, name, order, clock, sdk, net))

\* _handle_open_profile
HandleOpenProfile(program, name, order, clock, sdk, net, fed) ==
    LET Answer(r) ==
            [res |-> r.res, out |-> r.out, message |-> r.message,
             action |-> IF r.out.error # "" THEN "error" ELSE "consoleUrl"]
    IN  IF name = NoName /\ program # "legacy"
        THEN Answer([res |-> NoRes,
                     out |-> [url |-> "", error |-> "Missing profileName", fed |-> 0],
                     message |-> <<"Missing profileName">>])
        ELSE Answer(ProfileGenerateUrl(program, name, order, clock, sdk, net, fed))

(***************************************************************************)
(* The text of what generate_url returns, with the federation endpoint's   *)
(* reply told apart: a signin token, a status other than 200, an HTTP      *)
(* error or a network failure raised by urlopen, a body without            *)
(* SigninToken.  A text is the sequence of its parts.                       *)
(***************************************************************************)
SigninTokens == {"s1", "s2"}

FedReplies == SigninTokens \cup {"status", "http_error", "network", "no_token"}

\* the request sent to the federation endpoint: it carries the three secrets
BuildFederationRequestUrl(credentials) ==
    <<"federation?Action=getSigninToken&Session=",
      credentials.aws_access_key_id, credentials.aws_secret_access_key,
      credentials.aws_session_token>>

\* an exception text that quotes the request
ExceptionTextWithRequest(reply, request_url) ==
    <<reply>> \o request_url

\* str(e) of what urlopen raises or of the KeyError on the body
ExceptionText(reply, request_url) ==
    IF reply = "http_error" THEN <<"HTTP Error 403: Forbidden">>
    ELSE IF reply = "network" THEN <<"<urlopen error timed out>">>
    ELSE <<"'SigninToken'">>

\* _get_signin_token: the token, or "fail" for None
GetSigninToken(credentials, reply) ==
    IF reply \in SigninTokens THEN reply ELSE "fail"

\* ConsoleURLGenerator.generate_url under ProfileConsoleURLGenerator.generate_url
GenerateUrlText(name, credentials, reply) ==
    LET Said(out) ==
            [url |-> out.url, message |-> IF out.error = "" THEN <<>> ELSE <<out.error>>]
    IN  IF credentials = EmptyDict
        THEN [url |-> "", message |-> NoCredentialsMessage(name)]
        ELSE Said(GenerateUrl(credentials, GetSigninToken(credentials, reply)))

\* generate_console_url of the legacy script
LegacyGenerateUrlText(name, credentials, reply) ==
    IF credentials = EmptyDict
    THEN [url |-> "", message |-> NoCredentialsMessage(name)]
    ELSE IF ~Truthy(Get(credentials, "aws_access_key_id", NoneS))
            \/ ~Truthy(Get(credentials, "aws_secret_access_key", NoneS))
    THEN [url |-> "", message |-> <<"Incomplete credentials for profile: ", name[2]>>]
    ELSE IF ~Truthy(Get(credentials, "aws_session_token", NoneS))
    THEN [url |-> ConsoleUrl, message |-> <<>>]
    ELSE IF reply = "status"
    THEN [url |-> "", message |-> <<"Failed to get federation token from AWS">>]
    ELSE IF reply \in SigninTokens
    THEN [url |-> BuildConsoleUrl(reply), message |-> <<>>]
    ELSE [url |-> "",
          message |-> <<"Failed to generate console URL: ">>
                      \o ExceptionText(reply, BuildFederationRequestUrl(credentials))]

\* _fetch_role_credentials with the bearer token: the exchanged credentials, or
\* nothing when the portal refuses or cannot be reached
FetchRoleCredentials(access_token, net) ==
    IF net THEN RoleCredentials ELSE EmptyDict

(***************************************************************************)
(* ConsoleURLCache: a table of documents, one per cached URL.  A time is   *)
(* an instant of the clock; a datetime is stored as its ISO text and read  *)
(* back from it.                                                           *)
(***************************************************************************)
default_ttl == 2

IsoFormat(d) == <<"iso", d>>

NoIso == <<"None", NoneT>>

FromIsoFormat(text) == text[2]

Timestamp(d) == d

\* db.search(Profile.name == profile_name)
UrlSearch(db, profile_name) == SelectSeq(db, LAMBDA doc : doc.name = profile_name)

\* db.remove(Profile.name == profile_name)
UrlRemove(db, profile_name) == SelectSeq(db, LAMBDA doc : doc.name # profile_name)

\* db.upsert(document, Profile.name == profile_name): update every matching
\* document, insert when none matched
UrlUpsert(db, document, profile_name) ==
    IF UrlSearch(db, profile_name) # <<>>
    THEN [i \in DOMAIN db |-> IF db[i].name = profile_name THEN document ELSE db[i]]
    ELSE Append(db, document)

\* a change detection that takes a missing current expiry for a change
CredentialsChangedWhenUnknown(entry, current_expiry) ==
    /\ entry.credential_expiry # NoIso
    /\ \/ current_expiry = NoneT
       \/ FromIsoFormat(entry.credential_expiry) # current_expiry

\* "if current_expiry and entry.get('credential_expiry')": another expiry than
\* the one recorded with the entry
CredentialsChanged(entry, current_expiry) ==
    /\ current_expiry # NoneT
    /\ entry.credential_expiry # NoIso
    /\ FromIsoFormat(entry.credential_expiry) # current_expiry

\* an entry that never expires
UrlExpiredNever(entry, clock) == FALSE

\* "if time.time() > entry['expires_at']"
UrlExpired(entry, clock) == clock > entry.expires_at

\* get that returns absent for a changed or expired entry but leaves it in the table
UrlGetKeepsStale(db, profile_name, current_expiry, clock) ==
    LET Found(result) ==
            IF result = <<>> THEN [url |-> NoneS, db |-> db, why |-> "absent"]
            ELSE IF CredentialsChanged(result[1], current_expiry)
                 THEN [url |-> NoneS, db |-> db, why |-> "changed"]
            ELSE IF UrlExpired(result[1], clock)
                 THEN [url |-> NoneS, db |-> db, why |-> "expired"]
            ELSE [url |-> result[1].url, db |-> db, why |-> "hit"]
    IN  Found(UrlSearch(db, profile_name))

\* ConsoleURLCache.get
UrlGet(db, profile_name, current_expiry, clock) ==
    LET Found(result) ==
            IF result = <<>> THEN [url |-> NoneS, db |-> db, why |-> "absent"]
            ELSE IF CredentialsChanged(result[1], current_expiry)
                 THEN [url |-> NoneS, db |-> UrlRemove(db, profile_name),
                       why |-> "changed"]
            ELSE IF UrlExpired(result[1], clock)
                 THEN [url |-> NoneS, db |-> UrlRemove(db, profile_name),
                       why |-> "expired"]
            ELSE [url |-> result[1].url, db |-> db, why |-> "hit"]
    IN  Found(UrlSearch(db, profile_name))

\* ConsoleURLCache.set
UrlSet(db, profile_name, url, credential_expiry, clock) ==
    UrlUpsert(db,
              [name |-> profile_name,
               url |-> url,
               expires_at |-> IF credential_expiry # NoneT
                              THEN Timestamp(credential_expiry)
                              ELSE clock + default_ttl,
               cached_at |-> clock,
               credential_expiry |-> IF credential_expiry # NoneT
                                     THEN IsoFormat(credential_expiry) ELSE NoIso],
              profile_name)

\* ConsoleURLCache.invalidate
UrlInvalidate(db, profile_name) == UrlRemove(db, profile_name)

\* ConsoleURLCache.clear
UrlClear(db) == <<>>

(***************************************************************************)
(* ProfileMetadataProvider: colour and icon by the first rule one of whose *)
(* keywords occurs in the profile name.                                    *)
(***************************************************************************)
MetadataRules ==
    << [keywords |-> {"prod", "production"}, color |-> "red", icon |-> "briefcase"],
       [keywords |-> {"stg", "staging", "stage"}, color |-> "yellow", icon |-> "circle"],
       [keywords |-> {"dev", "development"}, color |-> "green", icon |-> "fingerprint"],
       [keywords |-> {"test", "qa"}, color |-> "turquoise", icon |-> "circle"],
       [keywords |-> {"ite", "integration"}, color |-> "blue", icon |-> "circle"],
       [keywords |-> {"vdi"}, color |-> "blue", icon |-> "vacation"],
       [keywords |-> {"janus"}, color |-> "purple", icon |-> "circle"] >>

\* KeywordMetadataRule.matches: the names of the model hold a keyword only
\* as one of their two words
Matches(rule, profile_name) ==
    profile_name[1] \in rule.keywords \/ profile_name[2] \in rule.keywords

RECURSIVE FirstMatch(_, _)
FirstMatch(profile_name, i) ==
    IF i > Len(MetadataRules) THEN 0
    ELSE IF Matches(MetadataRules[i], profile_name) THEN i
    ELSE FirstMatch(profile_name, i + 1)

GetColor(profile_name) ==
    IF FirstMatch(profile_name, 1) = 0 THEN "blue"
    ELSE MetadataRules[FirstMatch(profile_name, 1)].color

GetIcon(profile_name) ==
    IF FirstMatch(profile_name, 1) = 0 THEN "circle"
    ELSE MetadataRules[FirstMatch(profile_name, 1)].icon

\* ProfileMetadataProvider.enrich_profile
MetadataEnrichProfile(profile) ==
    Put(Put(profile, "color", GetColor(profile.name)), "icon", GetIcon(profile.name))

(***************************************************************************)
(* ProfileCache: the table 'cache' of ~/.aws/profile_cache.json, holding   *)
(* at most one entry [version, timestamp, profiles, profile_count].        *)
(***************************************************************************)
CACHE_VERSION == "1.0"

DEFAULT_TTL == 2

\* what the disk does to one request: nothing, or one failing operation
DiskAnswers == {"ok", "read_fails", "truncate_fails", "insert_fails"}

\* ProfileCache.get_cached_profiles
GetCachedProfilesAnyEntry(pc, clock, disk) ==
    IF ~pc.enabled \/ disk = "read_fails" \/ pc.table = <<>>
    THEN [some |-> FALSE, profiles |-> <<>>, pc |-> pc]
    ELSE [some |-> TRUE, profiles |-> Get(pc.table[1], "profiles", <<>>), pc |-> pc]

\* ProfileCache.get_cached_profiles; a timestamp that fromisoformat rejects is
\* NoneT
GetCachedProfiles(pc, clock, disk) ==
    IF ~pc.enabled \/ disk = "read_fails" \/ pc.table = <<>>
    THEN [some |-> FALSE, profiles |-> <<>>, pc |-> pc]
    ELSE IF "version" \notin DOMAIN pc.table[1] \/ pc.table[1].version # CACHE_VERSION
    THEN [some |-> FALSE, profiles |-> <<>>, pc |-> [pc EXCEPT !.table = <<>>]]
    ELSE IF "profiles" \notin DOMAIN pc.table[1] \/ "timestamp" \notin DOMAIN pc.table[1]
    THEN [some |-> FALSE, profiles |-> <<>>, pc |-> [pc EXCEPT !.table = <<>>]]
    ELSE IF pc.table[1].timestamp = NoneT
    THEN [some |-> FALSE, profiles |-> <<>>, pc |-> pc]
    ELSE IF clock - pc.table[1].timestamp > DEFAULT_TTL
    THEN [some |-> FALSE, profiles |-> <<>>, pc |-> pc]
    ELSE [some |-> TRUE, profiles |-> pc.table[1].profiles, pc |-> pc]

\* ProfileCache.update_cache
UpdateCache(pc, profiles, clock, disk) ==
    IF ~pc.enabled \/ disk = "truncate_fails" THEN [success |-> FALSE, pc |-> pc]
    ELSE IF disk = "insert_fails"
    THEN [success |-> FALSE, pc |-> [pc EXCEPT !.table = <<>>]]
    ELSE [success |-> TRUE,
          pc |-> [pc EXCEPT !.table =
                    << [version |-> CACHE_VERSION, timestamp |-> clock,
                        profiles |-> profiles, profile_count |-> Len(profiles)] >>]]

(***************************************************************************)
(* AWSProfileBridgeHandler: the list actions of the native-messaging host. *)
(***************************************************************************)
\* a cleanup that clears the flag of an SSO profile instead of removing the
\* fields of a profile without it
ClearSsoFlag(profile) ==
    IF "is_sso" \in DOMAIN profile THEN [profile EXCEPT !.is_sso = FALSE] ELSE profile

\* "if not profile.get('is_sso'): for key in [...]: profile.pop(key, None)"
CleanSsoFields(profile) ==
    IF ~Get(profile, "is_sso", FALSE) THEN Pop(profile, SsoKeys) ELSE profile

\* the body of the handler's loop over the profiles
AddMetadata(profile) == CleanSsoFields(MetadataEnrichProfile(profile))

\* on the manual path the listed profiles are the dicts of the cached lists:
\* the loop changes, in the cache, every dict that made it into the listing
\* (the last one of its name, config after credentials)
AddedInPlace(cache, manual) ==
    LET cred == IF cred_file.exists /\ cache["cred"].has THEN cache["cred"].data ELSE <<>>
        config == IF config_file.exists /\ cache["config"].has
                  THEN cache["config"].data ELSE <<>>
        Listed(all, k) == \A j \in (k + 1)..Len(all) : all[j].name # all[k].name
        Touched(list, offset, all) ==
            [i \in DOMAIN list |->
                IF Listed(all, offset + i) THEN AddMetadata(list[i]) ELSE list[i]]
    IN  IF ~manual THEN cache
        ELSE [p \in Paths |->
                IF p = "cred" /\ cred # <<>>
                THEN [cache[p] EXCEPT !.data = Touched(cred, 0, cred \o config)]
                ELSE IF p = "config" /\ config # <<>>
                THEN [cache[p] EXCEPT !.data = Touched(config, Len(cred), cred \o config)]
                ELSE cache[p]]

\* _handle_get_profiles, on the listing (profiles, st) that get_all_profiles returned
\* on its manual or SDK path
HandleGetProfiles(pc, listed, clock, manual, disk) ==
    LET Updated(profiles, u) ==
            [action |-> "profileList", profiles |-> profiles, fromCache |-> FALSE,
             success |-> u.success, pc |-> u.pc,
             st |-> [listed.st EXCEPT !.cache = AddedInPlace(@, manual)]]
        Processed(profiles) ==
            Updated(profiles, UpdateCache(pc, profiles, clock, disk))
    IN  Processed([i \in DOMAIN listed.profiles |-> AddMetadata(listed.profiles[i])])

\* _handle_get_cached_profiles
HandleGetCachedProfiles(pc, st, listed, clock, manual, disk) ==
    LET Cached(c) ==
            IF c.some
            THEN [action |-> "profileList", profiles |-> c.profiles, fromCache |-> TRUE,
                  success |-> TRUE, pc |-> c.pc, st |-> st]
            ELSE HandleGetProfiles(c.pc, listed, clock, manual,
                                   IF disk = "read_fails" THEN "ok" ELSE disk)
    IN  Cached(GetCachedProfiles(pc, clock, disk))

\* _handle_refresh_cache: the list goes to the cache, not to the client
HandleRefreshCache(pc, listed, clock, manual, disk) ==
    LET Refreshed(r) ==
            [action |-> "cacheRefreshed", profiles |-> <<>>, fromCache |-> FALSE,
             success |-> r.success, pc |-> r.pc, st |-> r.st]
    IN  Refreshed(HandleGetProfiles(pc, listed, clock, manual, disk))

\* _handle_enrich_sso_profiles
HandleEnrichSsoProfiles(pc, listed, clock, manual, disk) ==
    HandleGetProfiles(pc, listed, clock, manual, disk)

(***************************************************************************)
(* The state after construction: no file, empty caches.                    *)
(***************************************************************************)
NoFile == [exists |-> FALSE, mtime |-> 0, content |-> 1]

NoDir == [exists |-> FALSE, files |-> [f \in TokenFileNames |-> NoToken]]

IoNone == [reads |-> <<>>, tokens |-> 0, opened |-> {}, tier |-> "none",
           sdk |-> 0, sdkres |-> "", role |-> 0, fed |-> 0, steps |-> <<>>,
           dropped |-> 0, fs |-> "ok", inputs |-> <<>>, recorded |-> <<>>]

NoPrev == [name |-> "init", arg |-> "", skip |-> FALSE, clean |-> FALSE, same |-> FALSE]

RetNone == [profiles |-> <<>>, token |-> NoToken, creds |-> EmptyDict, url |-> "", error |-> "",
            action |-> "", message |-> <<>>, runs |-> <<>>, status |-> 0,
            validated |-> FALSE, limited |-> FALSE, streak |-> 0]

\* the host before run() is called, and a limiter without failures
NoHost == [stdin |-> <<>>, stdout |-> <<>>, pc |-> "done", message |-> "", response |-> "",
           taken |-> <<>>]

NoAttempts == [id \in {"", "127.0.0.1", "k1"} |-> <<>>]

\* no call in progress
NotRunning == [pc |-> "idle", path |-> "", mtime |-> 0, data |-> <<>>, skip |-> FALSE,
               i |-> 0]

\* the parse or listing that becomes the one before the last: no file changed
\* since it (clean), the new call returns what it returned (same)
Shift(profiles) ==
    [name |-> op.name, arg |-> op.arg, skip |-> op.skip, clean |-> ~dirty,
     same |-> profiles = ret.profiles]

NoOp == [name |-> "init", arg |-> "", skip |-> FALSE, at |-> 0, n |-> 0,
         expiry |-> NoneT]

\* a call of the program: its name and arguments, a bit that flips with every
\* call and, for a token lookup, the time of the call
Call(name, arg, skip) ==
    [name |-> name, arg |-> arg, skip |-> skip,
     at |-> IF name = "get_token" THEN now ELSE 0, n |-> 1 - op.n,
     expiry |-> NoneT]

\* a call of the URL cache: the profile name and the credential expiry passed
CallUrl(name, profile_name, expiry) ==
    [Call(name, profile_name, FALSE) EXCEPT !.expiry = expiry]

Called(name) == op'.n # op.n /\ op'.name = name

ProgramInit ==
    /\ file_cache = [p \in Paths |-> NoEntry]
    /\ memory_cache = [u \in StartUrls |-> NoMemory]
    /\ url_cache = <<>>
    /\ profile_cache = [enabled |-> TRUE, table |-> <<>>]
    /\ op = NoOp
    /\ ret = RetNone
    /\ io = IoNone
    /\ prev = NoPrev
    /\ dirty = FALSE
    /\ tasks = [t \in Tasks |-> Idle]
    /\ host = NoHost
    /\ attempts = NoAttempts
    /\ running = NotRunning

Init ==
    /\ now = 0
    /\ cred_file = NoFile
    /\ config_file = NoFile
    /\ nosso = FALSE
    /\ sso_dir = NoDir
    /\ boto3 = FALSE
    /\ impl = "api"
    /\ writes = 0
    /\ ProgramInit

(***************************************************************************)
(* The environment: the clock, and the identity provider writing and       *)
(* deleting token files.                                                   *)
(***************************************************************************)
Tick ==
    /\ now < MaxTime
    /\ now' = now + 1
    /\ UNCHANGED <<cred_file, config_file, nosso, sso_dir, boto3, impl, file_cache,
                   memory_cache, url_cache, op, ret, io, prev, dirty, writes,
                   profile_cache, tasks, host, attempts, running>>

WriteTokenFile(f, c) ==
    /\ sso_dir' = [exists |-> TRUE, files |-> [sso_dir.files EXCEPT ![f] = c]]
    /\ UNCHANGED <<now, cred_file, config_file, nosso, boto3, impl, file_cache,
                   memory_cache, url_cache, op, ret, io, prev, dirty, writes,
                   profile_cache, tasks, host, attempts, running>>

DeleteTokenFile(f) ==
    /\ sso_dir.files[f].kind # "none"
    /\ sso_dir' = [sso_dir EXCEPT !.files[f] = NoToken]
    /\ UNCHANGED <<now, cred_file, config_file, nosso, boto3, impl, file_cache,
                   memory_cache, url_cache, op, ret, io, prev, dirty, writes,
                   profile_cache, tasks, host, attempts, running>>

(***************************************************************************)
(* SSOTokenCache's operations.                                             *)
(***************************************************************************)
CallGetToken(start_url) ==
    \E order \in GlobOrders(sso_dir) :
      \E r \in {GetToken(memory_cache, sso_dir, start_url, order, now)} :
        /\ memory_cache' = r.mc
        /\ op' = Call("get_token", start_url, FALSE)
        /\ ret' = [RetNone EXCEPT !.token = r.token]
        /\ io' = [IoNone EXCEPT !.tokens = 1, !.opened = r.opened, !.tier = r.tier]
        /\ UNCHANGED <<now, cred_file, config_file, nosso, sso_dir, boto3, impl,
                       file_cache, url_cache, prev, dirty, writes, profile_cache, tasks,
                       host, attempts, running>>

\* a clear that leaves the entries in place
ClearNothing(mc) == mc

\* SSOTokenCache.clear
ClearMemory(mc) == [u \in StartUrls |-> NoMemory]

CallClear ==
    /\ memory_cache' = ClearMemory(memory_cache)
    /\ op' = Call("clear", "", FALSE)
    /\ ret' = RetNone
    /\ io' = [IoNone EXCEPT !.dropped = Cardinality({u \in StartUrls : memory_cache[u].has})]
    /\ UNCHANGED <<now, cred_file, config_file, nosso, sso_dir, boto3, impl,
                   file_cache, url_cache, prev, dirty, writes, profile_cache, tasks,
                   host, attempts, running>>

TokenNext ==
    \/ Tick
    \/ \E f \in TokenFileNames, c \in TokenContents : WriteTokenFile(f, c)
    \/ \E f \in TokenFileNames : DeleteTokenFile(f)
    \/ \E u \in StartUrls : CallGetToken(u)
    \/ CallClear

TokenSpec == Init /\ [][TokenNext]_vars


(***************************************************************************)
(* The environment writing and deleting the two configuration files; a     *)
(* write stamps the file with the time of the write.                       *)
(***************************************************************************)
WriteFile(path, c) ==
    /\ writes < MaxWrites
    /\ cred_file' = IF path = "cred"
                    THEN [exists |-> TRUE, mtime |-> now, content |-> c] ELSE cred_file
    /\ config_file' = IF path = "config"
                      THEN [exists |-> TRUE, mtime |-> now, content |-> c] ELSE config_file
    /\ dirty' = TRUE
    /\ writes' = writes + 1
    /\ UNCHANGED <<now, nosso, sso_dir, boto3, impl, file_cache, memory_cache, url_cache,
                   op, ret, io, prev, profile_cache, tasks, host, attempts, running>>

DeleteFile(path) ==
    /\ writes < MaxWrites
    /\ FileOf(path).exists
    /\ cred_file' = IF path = "cred" THEN NoFile ELSE cred_file
    /\ config_file' = IF path = "config" THEN NoFile ELSE config_file
    /\ dirty' = TRUE
    /\ writes' = writes + 1
    /\ UNCHANGED <<now, nosso, sso_dir, boto3, impl, file_cache, memory_cache, url_cache,
                   op, ret, io, prev, profile_cache, tasks, host, attempts, running>>

(***************************************************************************)
(* INIFileParser.parse, called on one of the two parsers.                  *)
(***************************************************************************)
CallParse(path) ==
    \E r \in {Parse(path, FileOf(path), file_cache, now)} :
    /\ file_cache' = r.cache
    /\ op' = Call("parse", path, FALSE)
    /\ ret' = [RetNone EXCEPT !.profiles = r.ret]
    /\ io' = [IoNone EXCEPT !.reads = r.reads]
    /\ prev' = Shift(r.ret)
    /\ dirty' = FALSE
    /\ UNCHANGED <<now, cred_file, config_file, nosso, sso_dir, boto3, impl,
                   memory_cache, url_cache, writes, profile_cache, tasks, host, attempts,
                   running>>

Other(path) == IF path = "cred" THEN "config" ELSE "cred"

\* one parser is exercised at a time: a file is written while the other is absent
ParseNext ==
    \/ Tick
    \/ \E p \in Paths : \E c \in PlainContents :
            ~FileOf(Other(p)).exists /\ WriteFile(p, c)
    \/ \E p \in Paths : DeleteFile(p)
    \/ \E p \in Paths : CallParse(p)

ParseSpec == Init /\ [][ParseNext]_vars

(***************************************************************************)
(* ProfileAggregator.get_all_profiles of the api-server, at either depth,  *)
(* with and without the SDK, while the files, the sentinel marker and the  *)
(* token files change.                                                     *)
(***************************************************************************)
NoSt == [cache |-> file_cache, mc |-> memory_cache, reads |-> <<>>, tokens |-> 0,
         opened |-> {}]

SetNosso(b) ==
    /\ nosso # b
    /\ nosso' = b
    /\ dirty' = TRUE
    /\ UNCHANGED <<now, cred_file, config_file, sso_dir, boto3, impl, file_cache,
                   memory_cache, url_cache, op, ret, io, prev, writes, profile_cache, tasks,
                   host, attempts, running>>

CallGetAllProfiles(skip_sso_enrichment) ==
    \E order \in GlobOrders(sso_dir), sdk_ok \in {b \in BOOLEAN : b \/ boto3} :
      \E r \in {GetAllProfiles(impl, skip_sso_enrichment, NoSt, order, now, sdk_ok)} :
        /\ file_cache' = r.st.cache
        /\ memory_cache' = r.st.mc
        /\ op' = Call("list", IF boto3 /\ sdk_ok THEN "sdk" ELSE "manual",
                      skip_sso_enrichment)
        /\ ret' = [RetNone EXCEPT !.profiles = r.profiles]
        /\ io' = [IoNone EXCEPT !.reads = r.st.reads, !.tokens = r.st.tokens,
                                !.opened = r.st.opened,
                                !.sdk = IF boto3 THEN 1 ELSE 0]
        /\ dirty' = FALSE
        /\ UNCHANGED <<now, cred_file, config_file, nosso, sso_dir, boto3, impl,
                       url_cache, prev, writes, profile_cache, tasks, host, attempts, running>>

ListTokens == {<<"f1", Tok("u1", 2, "at1")>>}

\* the files the program finds when it starts
FilesWith(contents) ==
    {NoFile} \cup {[exists |-> TRUE, mtime |-> 0, content |-> c] : c \in contents}

ListInit ==
    /\ now = 0
    /\ cred_file \in FilesWith({2, 3})
    /\ config_file \in FilesWith({2, 3, 4})
    /\ nosso = FALSE
    /\ sso_dir = NoDir
    /\ boto3 \in BOOLEAN
    /\ impl = "api"
    /\ writes = 0
    /\ ProgramInit

ListNext ==
    \/ Tick
    \/ \E b \in BOOLEAN : SetNosso(b)
    \/ \E w \in ListTokens : WriteTokenFile(w[1], w[2])
    \/ \E w \in ListTokens : DeleteTokenFile(w[1])
    \/ \E skip \in BOOLEAN : CallGetAllProfiles(skip)

ListSpec == ListInit /\ [][ListNext]_vars

(***************************************************************************)
(* get_all_profiles of the legacy script.                                  *)
(***************************************************************************)
CallLegacyGetAllProfiles ==
    \E order \in GlobOrders(sso_dir), sdk_ok \in {b \in BOOLEAN : b \/ boto3} :
      \E r \in {LegacyGetAllProfiles(NoSt, order, now, sdk_ok)} :
        /\ file_cache' = r.st.cache
        /\ memory_cache' = r.st.mc
        /\ op' = Call("list", IF boto3 /\ sdk_ok THEN "sdk" ELSE "manual", FALSE)
        /\ ret' = [RetNone EXCEPT !.profiles = r.profiles]
        /\ io' = [IoNone EXCEPT !.reads = r.st.reads, !.tokens = r.st.tokens,
                                !.opened = r.st.opened,
                                !.sdk = IF boto3 THEN 1 ELSE 0]
        /\ dirty' = FALSE
        /\ UNCHANGED <<now, cred_file, config_file, nosso, sso_dir, boto3, impl,
                       url_cache, prev, writes, profile_cache, tasks, host, attempts, running>>

LegacyInit ==
    /\ now = 0
    /\ cred_file \in FilesWith({2, 3})
    /\ config_file \in FilesWith({2, 3, 4})
    /\ nosso = FALSE
    /\ sso_dir = NoDir
    /\ boto3 \in BOOLEAN
    /\ impl = "legacy"
    /\ writes = 0
    /\ ProgramInit

LegacyNext ==
    \/ Tick
    \/ \E w \in ListTokens : WriteTokenFile(w[1], w[2])
    \/ \E w \in ListTokens : DeleteTokenFile(w[1])
    \/ CallLegacyGetAllProfiles

LegacySpec == LegacyInit /\ [][LegacyNext]_vars

(***************************************************************************)
(* Resolving a profile's credentials and opening a profile, in each of the *)
(* three programs.                                                         *)
(***************************************************************************)
ProfileNames == {<<"", "dev">>, <<"", "ops">>}

OpenTokens == {<<"f1", Tok("u1", 2, "at1")>>, <<"f1", Tok("u1", 3, NoneS)>>}

CallGetCredentials(name) ==
    \E order \in GlobOrders(sso_dir), net \in BOOLEAN,
       sdk \in IF impl = "api" /\ boto3 THEN SdkAnswers ELSE {"none"} :
      \E res \in {IF impl = "legacy" THEN LegacyGetCredentials(name, order, now, net)
                   ELSE GetCredentials(impl, name, order, now, sdk, net)} :
            /\ memory_cache' = res.mc
            /\ op' = Call("resolve", name, FALSE)
            /\ ret' = [RetNone EXCEPT !.creds = res.creds]
            /\ io' = [IoNone EXCEPT !.reads = res.reads, !.tokens = res.tokens,
                                    !.opened = res.opened, !.steps = res.steps,
                                    !.sdkres = res.sdk, !.role = res.role]
            /\ UNCHANGED <<now, cred_file, config_file, nosso, sso_dir, boto3, impl,
                           file_cache, url_cache, prev, dirty, writes, profile_cache, tasks,
                           host, attempts, running>>

CallOpenProfile(name) ==
    /\ impl # "api"
    /\ \E order \in GlobOrders(sso_dir), net \in BOOLEAN, fed \in FedAnswers :
      \E r \in {HandleOpenProfile(impl, name, order, now, "none", net, fed)} :
            /\ memory_cache' = r.res.mc
            /\ op' = Call("open", name, FALSE)
            /\ ret' = [RetNone EXCEPT !.creds = r.res.creds, !.url = r.out.url,
                                      !.error = r.out.error, !.action = r.action,
                                      !.message = r.message]
            /\ io' = [IoNone EXCEPT !.reads = r.res.reads, !.tokens = r.res.tokens,
                                    !.opened = r.res.opened, !.steps = r.res.steps,
                                    !.role = r.res.role, !.fed = r.out.fed]
            /\ UNCHANGED <<now, cred_file, config_file, nosso, sso_dir, boto3, impl,
                           file_cache, url_cache, prev, dirty, writes, profile_cache, tasks,
                           host, attempts, running>>

OpenInit ==
    /\ now = 0
    /\ cred_file \in FilesWith({2, 3})
    /\ config_file \in FilesWith({1, 2, 4})
    /\ nosso = FALSE
    /\ sso_dir = NoDir
    /\ impl \in {"api", "nm", "legacy"}
    /\ boto3 \in BOOLEAN
    /\ boto3 => impl = "api"
    /\ writes = 0
    /\ ProgramInit

OpenNext ==
    \/ Tick
    \/ \E w \in OpenTokens : WriteTokenFile(w[1], w[2])
    \/ \E w \in OpenTokens : DeleteTokenFile(w[1])
    \/ \E name \in ProfileNames : CallGetCredentials(name)
    \/ \E name \in ProfileNames \cup {NoName} : CallOpenProfile(name)

OpenSpec == OpenInit /\ [][OpenNext]_vars

(***************************************************************************)
(* ConsoleURLCache's operations, called with every profile name, URL and   *)
(* credential expiry while the clock advances.                             *)
(***************************************************************************)
Urls == {BuildConsoleUrl("s1"), BuildConsoleUrl("s2")}

CredentialExpiries == {NoneT, 2, MaxTime + 1}

CallUrlGet(profile_name, current_expiry) ==
    \E r \in {UrlGet(url_cache, profile_name, current_expiry, now)} :
        /\ url_cache' = r.db
        /\ op' = CallUrl("url_get", profile_name, current_expiry)
        /\ ret' = [RetNone EXCEPT !.url = r.url]
        /\ io' = [IoNone EXCEPT !.tier = r.why]
        /\ UNCHANGED <<now, cred_file, config_file, nosso, sso_dir, boto3, impl,
                       file_cache, memory_cache, prev, dirty, writes, profile_cache, tasks,
                       host, attempts, running>>

CallUrlSet(profile_name, url, credential_expiry) ==
    /\ url_cache' = UrlSet(url_cache, profile_name, url, credential_expiry, now)
    /\ op' = CallUrl("url_set", profile_name, credential_expiry)
    /\ ret' = [RetNone EXCEPT !.url = NoneS]
    /\ io' = IoNone
    /\ UNCHANGED <<now, cred_file, config_file, nosso, sso_dir, boto3, impl,
                   file_cache, memory_cache, prev, dirty, writes, profile_cache, tasks,
                   host, attempts, running>>

CallUrlInvalidate(profile_name) ==
    /\ url_cache' = UrlInvalidate(url_cache, profile_name)
    /\ op' = CallUrl("url_invalidate", profile_name, NoneT)
    /\ ret' = [RetNone EXCEPT !.url = NoneS]
    /\ io' = IoNone
    /\ UNCHANGED <<now, cred_file, config_file, nosso, sso_dir, boto3, impl,
                   file_cache, memory_cache, prev, dirty, writes, profile_cache, tasks,
                   host, attempts, running>>

CallUrlClear ==
    /\ url_cache' = UrlClear(url_cache)
    /\ op' = CallUrl("url_clear", NoName, NoneT)
    /\ ret' = [RetNone EXCEPT !.url = NoneS]
    /\ io' = IoNone
    /\ UNCHANGED <<now, cred_file, config_file, nosso, sso_dir, boto3, impl,
                   file_cache, memory_cache, prev, dirty, writes, profile_cache, tasks,
                   host, attempts, running>>

UrlNext ==
    \/ Tick
    \/ \E n \in ProfileNames, e \in CredentialExpiries : CallUrlGet(n, e)
    \/ \E n \in ProfileNames, u \in Urls, e \in CredentialExpiries : CallUrlSet(n, u, e)
    \/ \E n \in ProfileNames : CallUrlInvalidate(n)
    \/ CallUrlClear

UrlSpec == Init /\ [][UrlNext]_vars

(***************************************************************************)
(* The list actions of the native-messaging host (getProfiles,             *)
(* getCachedProfiles, refreshCache, enrichSSOProfiles), with and without   *)
(* the SDK and TinyDB, while the clock advances and token files change.    *)
(***************************************************************************)
ListActions == {"getProfiles", "getCachedProfiles", "refreshCache", "enrichSSOProfiles"}

HandleMessage(action, pc, st, listed, clock, manual, disk) ==
    IF action = "getCachedProfiles"
    THEN HandleGetCachedProfiles(pc, st, listed, clock, manual, disk)
    ELSE IF action = "getProfiles"
    THEN HandleGetProfiles(pc, listed, clock, manual, disk)
    ELSE IF action = "refreshCache"
    THEN HandleRefreshCache(pc, listed, clock, manual, disk)
    ELSE HandleEnrichSsoProfiles(pc, listed, clock, manual, disk)

CallHandleMessage(action) ==
    \E order \in GlobOrders(sso_dir), sdk_ok \in {b \in BOOLEAN : b \/ boto3} :
     \E listed \in {GetAllProfiles(impl, FALSE, NoSt, order, now, sdk_ok)} :
      \E disk \in DiskAnswers :
      \E r \in {HandleMessage(action, profile_cache, NoSt, listed, now,
                               ~(boto3 /\ sdk_ok), disk)} :
        /\ file_cache' = r.st.cache
        /\ memory_cache' = r.st.mc
        /\ profile_cache' = r.pc
        /\ op' = Call(action, IF r.fromCache THEN "cache"
                              ELSE IF boto3 /\ sdk_ok THEN "sdk" ELSE "manual", FALSE)
        /\ ret' = [RetNone EXCEPT !.profiles = r.profiles, !.action = r.action,
                                  !.error = IF r.action = "cacheRefreshed" /\ ~r.success
                                            THEN "Failed to update cache" ELSE ""]
        /\ io' = [IoNone EXCEPT !.reads = r.st.reads, !.tokens = r.st.tokens,
                                !.opened = r.st.opened,
                                !.fs = IF /\ action = "getCachedProfiles"
                                          /\ disk = "read_fails"
                                          /\ profile_cache.enabled
                                          /\ profile_cache.table # <<>>
                                       THEN "read_fails" ELSE "ok"]
        /\ dirty' = FALSE
        /\ UNCHANGED <<now, cred_file, config_file, nosso, sso_dir, boto3, impl,
                       url_cache, prev, writes, tasks, host, attempts, running>>

HandlerInit ==
    /\ now = 0
    /\ cred_file \in FilesWith({3})
    /\ config_file \in FilesWith({3, 4}) \ {NoFile}
    /\ nosso = FALSE
    /\ sso_dir = NoDir
    /\ boto3 \in BOOLEAN
    /\ impl = "nm"
    /\ writes = 0
    /\ file_cache = [p \in Paths |-> NoEntry]
    /\ memory_cache = [u \in StartUrls |-> NoMemory]
    /\ url_cache = <<>>
    /\ profile_cache \in {[enabled |-> e, table |-> <<>>] : e \in BOOLEAN}
    /\ op = NoOp
    /\ ret = RetNone
    /\ io = IoNone
    /\ prev = NoPrev
    /\ dirty = FALSE
    /\ tasks = [t \in Tasks |-> Idle]
    /\ host = NoHost
    /\ attempts = NoAttempts
    /\ running = NotRunning

HandlerNext ==
    \/ Tick
    \/ \E w \in ListTokens : WriteTokenFile(w[1], w[2])
    \/ \E action \in ListActions : CallHandleMessage(action)

HandlerSpec == HandlerInit /\ [][HandlerNext]_vars

(***************************************************************************)
(* The operations that look a token up: get_token, enrich_profile, the     *)
(* credential exchange and clear of sso_manager.py, and their counterparts *)
(* in the legacy script, while the identity provider writes and deletes    *)
(* token files.                                                            *)
(***************************************************************************)
LookupTokens == {Tok("u1", 2, "at1"), Tok("u1", 3, "at2"), BadFile}

\* SSOTokenCache.get_token, or get_sso_cached_token of the legacy script
LookupToken(program, mc, dir, start_url, order, clock) ==
    IF program = "legacy" THEN LegacyGetSsoCachedToken(mc, dir, start_url, order, clock)
    ELSE GetToken(mc, dir, start_url, order, clock)

\* entries of the memory tier found and not served
Dropped(start_url, tier) ==
    IF memory_cache[start_url].has /\ tier # "memory" THEN 1 ELSE 0

CallLookup(start_url) ==
    \E order \in GlobOrders(sso_dir) :
      \E r \in {LookupToken(impl, memory_cache, sso_dir, start_url, order, now)} :
        /\ memory_cache' = r.mc
        /\ op' = Call("get_token", start_url, FALSE)
        /\ ret' = [RetNone EXCEPT !.token = r.token]
        /\ io' = [IoNone EXCEPT !.tokens = 1, !.opened = r.opened, !.tier = r.tier,
                                !.dropped = Dropped(start_url, r.tier)]
        /\ UNCHANGED <<now, cred_file, config_file, nosso, sso_dir, boto3, impl,
                       file_cache, url_cache, profile_cache, prev, dirty, writes, tasks,
                       host, attempts, running>>

SsoProfile(start_url) ==
    [name |-> <<"", "dev">>, has_credentials |-> FALSE, expiration |-> NoneT,
     expired |-> FALSE, is_sso |-> TRUE, sso_start_url |-> start_url,
     sso_account_id |-> "a1", sso_role_name |-> "r1"]

CallEnrichProfile(start_url) ==
    \E order \in GlobOrders(sso_dir) :
      \E r \in {IF impl = "legacy"
                THEN LegacyTokenStatus(SsoProfile(start_url), NoSt, order, now)
                ELSE EnrichProfile(SsoProfile(start_url), NoSt, order, now)} :
        /\ memory_cache' = r.st.mc
        /\ op' = Call("enrich", start_url, FALSE)
        /\ ret' = [RetNone EXCEPT !.profiles = <<r.profile>>]
        /\ io' = [IoNone EXCEPT !.tokens = r.st.tokens, !.opened = r.st.opened]
        /\ UNCHANGED <<now, cred_file, config_file, nosso, sso_dir, boto3, impl,
                       file_cache, url_cache, profile_cache, prev, dirty, writes, tasks,
                       host, attempts, running>>

CallSsoGetCredentials(start_url) ==
    \E order \in GlobOrders(sso_dir), net \in BOOLEAN :
      \E r \in {IF impl = "legacy"
                THEN LegacyGetSsoCredentials(SsoProfile(start_url), NoRes, order, now, net)
                ELSE SsoGetCredentials(SsoProfile(start_url), NoRes, order, now, net)} :
        /\ memory_cache' = r.mc
        /\ op' = Call("exchange", start_url, FALSE)
        /\ ret' = [RetNone EXCEPT !.creds = r.creds]
        /\ io' = [IoNone EXCEPT !.tokens = r.tokens, !.opened = r.opened,
                                !.steps = r.steps, !.role = r.role]
        /\ UNCHANGED <<now, cred_file, config_file, nosso, sso_dir, boto3, impl,
                       file_cache, url_cache, profile_cache, prev, dirty, writes, tasks,
                       host, attempts, running>>

LookupInit ==
    /\ now = 0
    /\ cred_file = NoFile
    /\ config_file = NoFile
    /\ nosso = FALSE
    /\ sso_dir = NoDir
    /\ boto3 = FALSE
    /\ impl \in {"nm", "legacy"}
    /\ writes = 0
    /\ ProgramInit

LookupNext ==
    \/ Tick
    \/ \E f \in TokenFileNames, c \in LookupTokens : WriteTokenFile(f, c)
    \/ \E f \in TokenFileNames : DeleteTokenFile(f)
    \/ \E u \in StartUrls : CallLookup(u)
    \/ CallEnrichProfile("u1")
    \/ CallSsoGetCredentials("u1")
    \/ impl # "legacy" /\ CallClear

LookupSpec == LookupInit /\ [][LookupNext]_vars

(***************************************************************************)
(* INIFileParser.parse and ProfileConfigReader.get_credentials / get_config *)
(* on files that exist and that open() may refuse to read (PermissionError, *)
(* an OSError).  None of the three has a try around its `with open(...)`,   *)
(* and the timer decorator re-raises.                                       *)
(***************************************************************************)
OpenAnswers == {"ok", "open_fails"}

\* the result of a call that opened the paths `reads`, under the answer of open()
Opened(result, empty, answer) ==
    IF result.reads # <<>> /\ answer = "open_fails"
    THEN [ret |-> empty, reads |-> result.reads, raised |-> "OSError", fs |-> answer]
    ELSE [ret |-> result.ret, reads |-> result.reads, raised |-> "", fs |-> "ok"]

\* INIFileParser.parse: nothing is cached when _parse_file raises
ParseOpened(path, file, cache, clock, answer) ==
    LET Then(r) ==
            IF r.reads # <<>> /\ answer = "open_fails"
            THEN [out |-> Opened(r, <<>>, answer), cache |-> cache]
            ELSE [out |-> Opened(r, <<>>, answer), cache |-> r.cache]
    IN  Then(Parse(path, file, cache, clock))

CallParseOpened(path) ==
    \E answer \in OpenAnswers :
      \E r \in {ParseOpened(path, FileOf(path), file_cache, now, answer)} :
        /\ file_cache' = r.cache
        /\ op' = Call("parse", path, FALSE)
        /\ ret' = [RetNone EXCEPT !.profiles = r.out.ret, !.error = r.out.raised]
        /\ io' = [IoNone EXCEPT !.reads = r.out.reads, !.fs = r.out.fs]
        /\ UNCHANGED <<now, cred_file, config_file, nosso, sso_dir, boto3, impl,
                       memory_cache, url_cache, profile_cache, prev, dirty, writes, tasks,
                       host, attempts, running>>

CallReaderGetCredentials(name) ==
    \E answer \in OpenAnswers :
      \E r \in {Opened(GetCredentialsOfFile(cred_file, name), EmptyDict, answer)} :
        /\ op' = Call("reader_get_credentials", name, FALSE)
        /\ ret' = [RetNone EXCEPT !.creds = r.ret, !.error = r.raised]
        /\ io' = [IoNone EXCEPT !.reads = r.reads, !.fs = r.fs]
        /\ UNCHANGED <<now, cred_file, config_file, nosso, sso_dir, boto3, impl,
                       file_cache, memory_cache, url_cache, profile_cache, prev,
                       dirty, writes, tasks, host, attempts, running>>

CallReaderGetConfig(name) ==
    \E answer \in OpenAnswers :
      \E r \in {Opened(GetConfig(config_file, name), EmptyDict, answer)} :
        /\ op' = Call("reader_get_config", name, FALSE)
        /\ ret' = [RetNone EXCEPT !.creds = r.ret, !.error = r.raised]
        /\ io' = [IoNone EXCEPT !.reads = r.reads, !.fs = r.fs]
        /\ UNCHANGED <<now, cred_file, config_file, nosso, sso_dir, boto3, impl,
                       file_cache, memory_cache, url_cache, profile_cache, prev,
                       dirty, writes, tasks, host, attempts, running>>

ReadNext ==
    \/ Tick
    \/ \E p \in Paths : \E c \in PlainContents :
            ~FileOf(Other(p)).exists /\ WriteFile(p, c)
    \/ \E p \in Paths : DeleteFile(p)
    \/ \E p \in Paths : CallParseOpened(p)
    \/ \E name \in ProfileNames : CallReaderGetCredentials(name)
    \/ \E name \in ProfileNames : CallReaderGetConfig(name)

ReadSpec == Init /\ [][ReadNext]_vars

(***************************************************************************)
(* Two request-handling tasks inside get_token of the same SSOTokenCache.  *)
(* The class holds a plain dict and no lock, so the tasks interleave at    *)
(* the statements of get_token and _get_from_memory: the membership test,  *)
(* the read of the entry, the two tests, the del, the search of the token  *)
(* directory and _save_to_memory.                                          *)
(***************************************************************************)
TaskUrl == "u1"

TaskTokens == {Tok("u1", 2, "at1"), Tok("u1", 3, "at2")}

TaskFrame ==
    UNCHANGED <<now, cred_file, config_file, nosso, sso_dir, boto3, impl, file_cache,
                url_cache, profile_cache, prev, dirty, writes, host, attempts, running>>

\* a request enters get_token
Begin(t) ==
    /\ tasks[t].pc = "idle"
    /\ tasks' = [tasks EXCEPT ![t].pc = "check"]
    /\ UNCHANGED <<memory_cache, op, ret, io, host, attempts, running>>
    /\ TaskFrame

\* if start_url not in self._memory_cache: return None
CheckMembership(t) ==
    /\ tasks[t].pc = "check"
    /\ tasks' = [tasks EXCEPT ![t].pc = IF memory_cache[TaskUrl].has THEN "read" ELSE "file"]
    /\ UNCHANGED <<memory_cache, op, ret, io, host, attempts, running>>
    /\ TaskFrame

\* cached_token, cache_time = self._memory_cache[start_url]: KeyError if the key is gone
ReadEntry(t) ==
    /\ tasks[t].pc = "read"
    /\ tasks' = [tasks EXCEPT ![t] =
                    IF memory_cache[TaskUrl].has
                    THEN [pc |-> "test", entry |-> memory_cache[TaskUrl], token |-> NoToken]
                    ELSE [pc |-> "failed", entry |-> NoMemory, token |-> NoToken]]
    /\ UNCHANGED <<memory_cache, op, ret, io, host, attempts, running>>
    /\ TaskFrame

\* the freshness test and the token's own expiry, on the entry that was read
TestEntry(t) ==
    /\ tasks[t].pc = "test"
    /\ tasks' = [tasks EXCEPT ![t] =
                    IF now - tasks[t].entry.cache_time >= DEFAULT_CACHE_TTL_SECONDS
                       \/ ~IsTokenValid(tasks[t].entry.token, now)
                    THEN [@ EXCEPT !.pc = "evict"]
                    ELSE [@ EXCEPT !.pc = "done", !.token = tasks[t].entry.token]]
    /\ UNCHANGED <<memory_cache, op, ret, io, host, attempts, running>>
    /\ TaskFrame

\* del self._memory_cache[start_url]: KeyError if the key is gone
Evict(t) ==
    /\ tasks[t].pc = "evict"
    /\ IF memory_cache[TaskUrl].has
       THEN /\ memory_cache' = [memory_cache EXCEPT ![TaskUrl] = NoMemory]
            /\ tasks' = [tasks EXCEPT ![t].pc = "file"]
       ELSE /\ memory_cache' = memory_cache
            /\ tasks' = [tasks EXCEPT ![t].pc = "failed"]
    /\ UNCHANGED <<op, ret, io, host, attempts, running>>
    /\ TaskFrame

\* token = self._get_from_file(start_url)
ReadTokenFiles(t) ==
    /\ tasks[t].pc = "file"
    /\ \E order \in GlobOrders(sso_dir) :
         \E f \in {GetFromFile(sso_dir, TaskUrl, order, now)} :
            tasks' = [tasks EXCEPT ![t] =
                        [pc |-> IF f.token.kind = "tok" THEN "save" ELSE "done",
                         entry |-> NoMemory, token |-> f.token]]
    /\ UNCHANGED <<memory_cache, op, ret, io, host, attempts, running>>
    /\ TaskFrame

\* self._save_to_memory(start_url, token)
SaveEntry(t) ==
    /\ tasks[t].pc = "save"
    /\ memory_cache' = SaveToMemory(memory_cache, TaskUrl, tasks[t].token, now)
    /\ tasks' = [tasks EXCEPT ![t].pc = "done"]
    /\ UNCHANGED <<op, ret, io, host, attempts, running>>
    /\ TaskFrame

\* get_token returns, or the KeyError leaves it
Return(t) ==
    /\ tasks[t].pc \in {"done", "failed"}
    /\ op' = Call("get_token", TaskUrl, FALSE)
    /\ ret' = [RetNone EXCEPT !.token = tasks[t].token,
                              !.error = IF tasks[t].pc = "failed" THEN "KeyError" ELSE ""]
    /\ io' = [IoNone EXCEPT !.tokens = 1]
    /\ tasks' = [tasks EXCEPT ![t] = Idle]
    /\ UNCHANGED memory_cache
    /\ TaskFrame

TaskNext ==
    \/ Tick
    \/ \E c \in TaskTokens : WriteTokenFile(CacheKey(TaskUrl), c)
    \/ DeleteTokenFile(CacheKey(TaskUrl))
    \/ \E t \in Tasks : Begin(t)
    \/ \E t \in Tasks : CheckMembership(t)
    \/ \E t \in Tasks : ReadEntry(t)
    \/ \E t \in Tasks : TestEntry(t)
    \/ \E t \in Tasks : Evict(t)
    \/ \E t \in Tasks : ReadTokenFiles(t)
    \/ \E t \in Tasks : SaveEntry(t)
    \/ \E t \in Tasks : Return(t)

TaskSpec == Init /\ [][TaskNext]_vars

(***************************************************************************)
(* Two runs of generate_url side by side: the same profile, the same       *)
(* reply of the federation endpoint and of the SSO portal, the same fields *)
(* present, and secrets of different value.                                *)
(***************************************************************************)
AccessKeys == {"", "AK1", "AK2"}

SecretKeys == {"", "SK1", "SK2"}

SessionTokens == {NoneS, "ST1", "ST2"}

BearerTokens == {"at1", "at2"}

\* the credentials a run resolves: a section of the credentials file, or the
\* exchange of a bearer token
ResolvedFromFile(ak, sk, st) ==
    IF st = NoneS THEN [aws_access_key_id |-> ak, aws_secret_access_key |-> sk]
    ELSE [aws_access_key_id |-> ak, aws_secret_access_key |-> sk, aws_session_token |-> st]

SameFieldsPresent(c1, c2) ==
    /\ DOMAIN c1 = DOMAIN c2
    /\ \A k \in DOMAIN c1 : Truthy(c1[k]) = Truthy(c2[k])

RunGenerateUrl(program, name, credentials, reply) ==
    IF program = "legacy" THEN LegacyGenerateUrlText(name, credentials, reply)
    ELSE GenerateUrlText(name, credentials, reply)

CallGenerateUrlTwice(name, c1, c2, reply) ==
    /\ SameFieldsPresent(c1, c2)
    /\ op' = Call("generate_url", name, FALSE)
    /\ ret' = [RetNone EXCEPT !.runs = <<RunGenerateUrl(impl, name, c1, reply),
                                         RunGenerateUrl(impl, name, c2, reply)>>]
    /\ io' = [IoNone EXCEPT !.inputs = <<c1, c2>>, !.sdkres = reply]
    /\ UNCHANGED <<now, cred_file, config_file, nosso, sso_dir, boto3, impl, file_cache,
                   memory_cache, url_cache, profile_cache, prev, dirty, writes, tasks,
                   host, attempts, running>>

CallGenerateUrlFromFiles(name) ==
    \E ak1 \in AccessKeys \ {"AK2"}, ak2 \in AccessKeys,
       sk1 \in SecretKeys \ {"SK2"}, sk2 \in SecretKeys,
       st1 \in SessionTokens \ {"ST2"}, st2 \in SessionTokens, reply \in FedReplies :
        /\ CallGenerateUrlTwice(name, ResolvedFromFile(ak1, sk1, st1),
                                ResolvedFromFile(ak2, sk2, st2), reply)

CallGenerateUrlFromSso(name) ==
    \E b1 \in BearerTokens \ {"at2"}, b2 \in BearerTokens, net \in BOOLEAN,
       reply \in FedReplies :
        /\ CallGenerateUrlTwice(name, FetchRoleCredentials(b1, net),
                                FetchRoleCredentials(b2, net), reply)

SecretInit ==
    /\ now = 0
    /\ cred_file = NoFile
    /\ config_file = NoFile
    /\ nosso = FALSE
    /\ sso_dir = NoDir
    /\ boto3 = FALSE
    /\ impl \in {"nm", "legacy"}
    /\ writes = 0
    /\ ProgramInit

SecretNext ==
    \/ \E name \in ProfileNames : CallGenerateUrlFromFiles(name)
    \/ \E name \in ProfileNames : CallGenerateUrlFromSso(name)

SecretSpec == SecretInit /\ [][SecretNext]_vars

(***************************************************************************)
(* Listing, resolving and opening profiles in one run, of the api-server   *)
(* and of the native-messaging host with its persisted profile cache,      *)
(* while the credentials file is rewritten and tokens are written.         *)
(***************************************************************************)
CredTokens == {<<"f1", Tok("u1", 3, "at1")>>}

CredInit ==
    /\ now = 0
    /\ cred_file \in FilesWith({2}) \ {NoFile}
    /\ config_file \in FilesWith({1})
    /\ nosso = FALSE
    /\ sso_dir = NoDir
    /\ impl \in {"api", "nm"}
    /\ boto3 \in BOOLEAN
    /\ boto3 => impl = "api"
    /\ writes = 0
    /\ ProgramInit

CredNext ==
    \/ \E c \in {2, 3} : WriteFile("cred", c)
    \/ \E w \in CredTokens : WriteTokenFile(w[1], w[2])
    \/ \E skip \in BOOLEAN : impl = "api" /\ CallGetAllProfiles(skip)
    \/ \E action \in {"getProfiles", "getCachedProfiles"} :
            impl = "nm" /\ CallHandleMessage(action)
    \/ \E name \in ProfileNames : CallGetCredentials(name)
    \/ CallOpenProfile(<<"", "dev">>)

CredSpec == CredInit /\ [][CredNext]_vars

(***************************************************************************)
(* The native-messaging host stopped and started again: the dicts of       *)
(* FileCache and SSOTokenCache and the MemoryStorage table of              *)
(* ConsoleURLCache start empty, while ProfileCache opens the TinyDB file   *)
(* ~/.aws/profile_cache.json that the run before left on disk.             *)
(***************************************************************************)
Restart ==
    /\ file_cache' = [p \in Paths |-> NoEntry]
    /\ memory_cache' = [u \in StartUrls |-> NoMemory]
    /\ url_cache' = <<>>
    /\ profile_cache' = [enabled |-> profile_cache.enabled, table |-> profile_cache.table]
    /\ tasks' = [t \in Tasks |-> Idle]
    /\ op' = Call("restart", "", FALSE)
    /\ ret' = RetNone
    /\ io' = IoNone
    /\ UNCHANGED <<now, cred_file, config_file, nosso, sso_dir, boto3, impl, prev, dirty,
                   writes, host, attempts, running>>

RestartNext ==
    \/ \E c \in {3, 4} : WriteFile("config", c)
    \/ \E action \in {"getProfiles", "getCachedProfiles"} : CallHandleMessage(action)
    \/ Restart

RestartSpec == HandlerInit /\ [][RestartNext]_vars

(***************************************************************************)
(* get_all_profiles over a credentials file that repeats a section header. *)
(***************************************************************************)
NamesInit ==
    /\ now = 0
    /\ cred_file \in FilesWith({3, 5})
    /\ config_file \in FilesWith({3, 4})
    /\ nosso \in BOOLEAN
    /\ sso_dir = NoDir
    /\ boto3 \in BOOLEAN
    /\ impl = "api"
    /\ writes = 0
    /\ ProgramInit

NamesNext ==
    \/ \E b \in BOOLEAN : SetNosso(b)
    \/ \E c \in {3, 5} : WriteFile("cred", c)
    \/ \E skip \in BOOLEAN : CallGetAllProfiles(skip)

NamesSpec == NamesInit /\ [][NamesNext]_vars

(***************************************************************************)
(* native_messaging.py: the frames on stdin, NativeMessagingReader,        *)
(* NativeMessagingWriter and the loop of NativeMessagingHost.run.  A frame *)
(* is a 4-byte length and a body; what matters of it is whether both are   *)
(* complete and what json.loads makes of the body.                         *)
(***************************************************************************)
MaxFrames == 3

\* a JSON object with an action, JSON null, a JSON number, a body that is no JSON
WholeFrames ==
    {[kind |-> "object", action |-> a] : a \in {"a1", "a2"}}
        \cup {[kind |-> k, action |-> ""] : k \in {"null", "number", "invalid_json"}}

\* the stream ends inside the length or inside the body
CutFrames == {[kind |-> k, action |-> ""] : k \in {"short_length", "short_content"}}

RECURSIVE Streams(_)
Streams(n) ==
    IF n = 0 THEN {<<>>}
    ELSE Streams(n - 1)
            \cup {Append(s, f) : s \in {t \in Streams(n - 1) : Len(t) = n - 1},
                                 f \in WholeFrames}

\* a cut frame is the last one: after it the stream has no bytes left
Stdin == Streams(MaxFrames)
            \cup {Append(s, f) : s \in Streams(MaxFrames - 1), f \in CutFrames}

\* NativeMessagingReader.read_message: None for the end of the stream, for a
\* ValueError (short length, short content, invalid JSON) and for JSON null
ReadMessage(stream) ==
    IF stream = <<>> THEN [message |-> NoneS, stream |-> <<>>]
    ELSE IF Head(stream).kind = "object"
         THEN [message |-> Head(stream).action, stream |-> Tail(stream)]
    ELSE IF Head(stream).kind = "number"
         THEN [message |-> "number", stream |-> Tail(stream)]
    ELSE [message |-> NoneS, stream |-> Tail(stream)]

\* AWSProfileBridge.handle_message for an action it does not know; a message
\* that is no dict has no get(): AttributeError
HandleUnknownAction(message) ==
    IF message = "number" THEN [raised |-> TRUE, response |-> ""]
    ELSE [raised |-> FALSE, response |-> message]

\* NativeMessagingWriter.write_message: an IOError is logged and swallowed
WriteAnswers == {"ok", "io_error"}

WriteMessage(out, response, answer) ==
    IF answer = "ok" THEN Append(out, response) ELSE out

\* run(): message = self.reader.read_message(); if message is None: break
HostRead ==
    /\ host.pc = "read"
    /\ \E r \in {ReadMessage(host.stdin)} :
         host' = [host EXCEPT !.stdin = r.stream,
                              !.message = r.message,
                              !.pc = IF r.message = NoneS THEN "done" ELSE "handle",
                              !.taken = IF r.message = NoneS THEN @
                                        ELSE Append(@, r.message)]
    /\ op' = Call("read_message", "", FALSE)
    /\ UNCHANGED <<now, cred_file, config_file, nosso, sso_dir, boto3, impl, file_cache,
                   memory_cache, url_cache, profile_cache, ret, io, prev, dirty, writes,
                   tasks, attempts, running>>

\* response = self.handler.handle_message(message)
HostHandle ==
    /\ host.pc = "handle"
    /\ \E r \in {HandleUnknownAction(host.message)} :
         host' = [host EXCEPT !.response = r.response,
                              !.pc = IF r.raised THEN "raised" ELSE "write"]
    /\ op' = Call("handle_message", host.message, FALSE)
    /\ UNCHANGED <<now, cred_file, config_file, nosso, sso_dir, boto3, impl, file_cache,
                   memory_cache, url_cache, profile_cache, ret, io, prev, dirty, writes,
                   tasks, attempts, running>>

\* self.writer.write_message(response)
HostWrite ==
    /\ host.pc = "write"
    /\ \E answer \in WriteAnswers :
         /\ host' = [host EXCEPT !.stdout = WriteMessage(@, host.response, answer),
                                 !.pc = "read"]
         /\ io' = [IoNone EXCEPT !.fs = answer]
    /\ op' = Call("write_message", host.response, FALSE)
    /\ UNCHANGED <<now, cred_file, config_file, nosso, sso_dir, boto3, impl, file_cache,
                   memory_cache, url_cache, profile_cache, ret, prev, dirty, writes,
                   tasks, attempts, running>>

HostInit ==
    /\ now = 0
    /\ cred_file = NoFile
    /\ config_file = NoFile
    /\ nosso = FALSE
    /\ sso_dir = NoDir
    /\ boto3 = FALSE
    /\ impl = "nm"
    /\ writes = 0
    /\ file_cache = [p \in Paths |-> NoEntry]
    /\ memory_cache = [u \in StartUrls |-> NoMemory]
    /\ url_cache = <<>>
    /\ profile_cache = [enabled |-> TRUE, table |-> <<>>]
    /\ op = NoOp
    /\ ret = RetNone
    /\ io = IoNone
    /\ prev = NoPrev
    /\ dirty = FALSE
    /\ tasks = [t \in Tasks |-> Idle]
    /\ host \in {[NoHost EXCEPT !.stdin = s, !.pc = "read"] : s \in Stdin}
    /\ attempts = NoAttempts
    /\ running = NotRunning

HostNext == HostRead \/ HostHandle \/ HostWrite

HostSpec == HostInit /\ [][HostNext]_vars

(***************************************************************************)
(* api-server auth: TokenManager.validate, RateLimiter and                 *)
(* Authenticator.authenticate.  Times are in units of 30 seconds.          *)
(***************************************************************************)
MAX_ATTEMPTS == 2

WINDOW_SECONDS == 2

\* the token of TokenManager._token, another well-formed token, a malformed
\* one, the empty header and the missing header
API_TOKEN == "awspc_stored"

PresentedTokens == {API_TOKEN, "awspc_other", "malformed", "", NoneS}

DEFAULT_CLIENT_ID == "127.0.0.1"

LimiterKeys == {"k1", "", NoneS}

\* TokenManager.validate_format
ValidateFormat(token) == Truthy(token) /\ token \in {API_TOKEN, "awspc_other"}

\* TokenManager.validate
Validate(token) == Truthy(token) /\ ValidateFormat(token) /\ token = API_TOKEN

\* RateLimiter._hash_token: sha256 of (token or ""), one id per text
HashToken(token) == IF Truthy(token) THEN token ELSE ""

RECURSIVE Newer(_, _)
Newer(times, cutoff) ==
    IF times = <<>> THEN <<>>
    ELSE IF Head(times) > cutoff THEN <<Head(times)>> \o Newer(Tail(times), cutoff)
    ELSE Newer(Tail(times), cutoff)

\* a cleanup that drops nothing
CleanupNothing(at, token_id, clock) == at

\* RateLimiter._cleanup_old_attempts
CleanupOldAttempts(at, token_id, clock) ==
    [at EXCEPT ![token_id] = Newer(@, clock - WINDOW_SECONDS)]

\* a limiter that counts the request it turns away as one more failure
IsRateLimitedCountsRejected(at, token, clock) ==
    LET Counted(cleaned) ==
            IF Len(cleaned[HashToken(token)]) >= MAX_ATTEMPTS
            THEN [limited |-> TRUE,
                  attempts |-> [cleaned EXCEPT ![HashToken(token)] = Append(@, clock)]]
            ELSE [limited |-> FALSE, attempts |-> cleaned]
    IN  Counted(CleanupOldAttempts(at, HashToken(token), clock))

\* RateLimiter.is_rate_limited
IsRateLimited(at, token, clock) ==
    LET Counted(cleaned) ==
            [limited |-> Len(cleaned[HashToken(token)]) >= MAX_ATTEMPTS,
             attempts |-> cleaned]
    IN  Counted(CleanupOldAttempts(at, HashToken(token), clock))

\* RateLimiter.record_failure
RecordFailure(at, token, clock) ==
    [at EXCEPT ![HashToken(token)] = Append(@, clock)]

\* an authenticate that validates the token before it asks the limiter
AuthenticateValidatesFirst(at, token, client_id, clock) ==
    LET Checked(r) ==
            IF ~Validate(token)
            THEN [status |-> IF r.limited THEN 429 ELSE 401, validated |-> TRUE,
                  attempts |-> RecordFailure(r.attempts, client_id, clock)]
            ELSE [status |-> IF r.limited THEN 429 ELSE 200, validated |-> TRUE,
                  attempts |-> r.attempts]
    IN  Checked(IsRateLimited(at, client_id, clock))

\* Authenticator.authenticate: 200 stands for returning None
Authenticate(at, token, client_id, clock) ==
    LET Checked(r) ==
            IF r.limited
            THEN [status |-> 429, validated |-> FALSE, attempts |-> r.attempts]
            ELSE IF ~Validate(token)
            THEN [status |-> 401, validated |-> TRUE,
                  attempts |-> RecordFailure(r.attempts, client_id, clock)]
            ELSE [status |-> 200, validated |-> TRUE, attempts |-> r.attempts]
    IN  Checked(IsRateLimited(at, client_id, clock))

\* the routes call authenticator.authenticate(x_api_token): client_id is the
\* default.  streak counts the 401 answers in a row, up to MAX_ATTEMPTS.
CallAuthenticate(token) ==
    /\ \E r \in {Authenticate(attempts, token, DEFAULT_CLIENT_ID, now)} :
         /\ attempts' = r.attempts
         /\ ret' = [RetNone EXCEPT
                      !.status = r.status, !.validated = r.validated,
                      !.limited = r.status = 429,
                      !.streak = IF r.status # 401 THEN 0
                                 ELSE IF ret.streak < MAX_ATTEMPTS THEN ret.streak + 1
                                 ELSE ret.streak]
         /\ io' = [IoNone EXCEPT
                      !.recorded = IF r.status = 401
                                   THEN Append(io.recorded, <<token, now>>)
                                   ELSE io.recorded]
    /\ op' = Call("authenticate", token, FALSE)
    /\ UNCHANGED <<now, cred_file, config_file, nosso, sso_dir, boto3, impl, file_cache,
                   memory_cache, url_cache, profile_cache, prev, dirty, writes, tasks,
                   host, running>>

AuthInit ==
    /\ now = 0
    /\ cred_file = NoFile
    /\ config_file = NoFile
    /\ nosso = FALSE
    /\ sso_dir = NoDir
    /\ boto3 = FALSE
    /\ impl = "api"
    /\ writes = 0
    /\ ProgramInit

AuthNext ==
    \/ Tick
    \/ \E token \in PresentedTokens : CallAuthenticate(token)

AuthSpec == AuthInit /\ [][AuthNext]_vars

(***************************************************************************)
(* RateLimiter used by itself.  io.recorded lists the calls of             *)
(* record_failure that are still inside the window, as <<key, time>>.      *)
(***************************************************************************)
MaxFailures == 3

RECURSIVE InWindow(_, _)
InWindow(recorded, cutoff) ==
    IF recorded = <<>> THEN <<>>
    ELSE IF Head(recorded)[2] > cutoff
         THEN <<Head(recorded)>> \o InWindow(Tail(recorded), cutoff)
    ELSE InWindow(Tail(recorded), cutoff)

CallIsRateLimited(key) ==
    /\ \E r \in {IsRateLimited(attempts, key, now)} :
         /\ attempts' = r.attempts
         /\ ret' = [RetNone EXCEPT !.limited = r.limited]
         /\ io' = [IoNone EXCEPT
                      !.recorded = InWindow(io.recorded, now - WINDOW_SECONDS),
                      !.dropped = Len(attempts[HashToken(key)])
                                    - Len(r.attempts[HashToken(key)])]
    /\ op' = Call("is_rate_limited", key, FALSE)
    /\ UNCHANGED <<now, cred_file, config_file, nosso, sso_dir, boto3, impl, file_cache,
                   memory_cache, url_cache, profile_cache, prev, dirty, writes, tasks,
                   host, running>>

CallRecordFailure(key) ==
    /\ Len(attempts[HashToken(key)]) < MaxFailures
    /\ attempts' = RecordFailure(attempts, key, now)
    /\ ret' = RetNone
    /\ io' = [IoNone EXCEPT
                 !.recorded = Append(InWindow(io.recorded, now - WINDOW_SECONDS),
                                     <<key, now>>)]
    /\ op' = Call("record_failure", key, FALSE)
    /\ UNCHANGED <<now, cred_file, config_file, nosso, sso_dir, boto3, impl, file_cache,
                   memory_cache, url_cache, profile_cache, prev, dirty, writes, tasks,
                   host, running>>

LimiterNext ==
    \/ Tick
    \/ \E key \in LimiterKeys : CallIsRateLimited(key)
    \/ \E key \in LimiterKeys : CallRecordFailure(key)

LimiterSpec == AuthInit /\ [][LimiterNext]_vars

(***************************************************************************)
(* ProfileCache over a cache file that an earlier run left behind: empty,  *)
(* written by another version, lacking a field, with an unreadable         *)
(* timestamp, or whole.                                                    *)
(***************************************************************************)
StoredEntries ==
    { [version |-> "0.9", timestamp |-> 0, profiles |-> <<>>, profile_count |-> 0],
      [timestamp |-> 0, profiles |-> <<>>, profile_count |-> 0],
      [version |-> CACHE_VERSION, timestamp |-> 0, profile_count |-> 0],
      [version |-> CACHE_VERSION, profiles |-> <<>>, profile_count |-> 0],
      [version |-> CACHE_VERSION, timestamp |-> NoneT, profiles |-> <<>>,
       profile_count |-> 0],
      [version |-> CACHE_VERSION, timestamp |-> 0, profiles |-> <<>>,
       profile_count |-> 0] }

CacheInit ==
    /\ now = 0
    /\ cred_file = NoFile
    /\ config_file \in FilesWith({3, 4}) \ {NoFile}
    /\ nosso = FALSE
    /\ sso_dir = NoDir
    /\ boto3 = FALSE
    /\ impl = "nm"
    /\ writes = 0
    /\ file_cache = [p \in Paths |-> NoEntry]
    /\ memory_cache = [u \in StartUrls |-> NoMemory]
    /\ url_cache = <<>>
    /\ profile_cache \in {[enabled |-> e, table |-> t] :
                            e \in BOOLEAN, t \in {<<>>} \cup {<<x>> : x \in StoredEntries}}
    /\ op = NoOp
    /\ ret = RetNone
    /\ io = IoNone
    /\ prev = NoPrev
    /\ dirty = FALSE
    /\ tasks = [t \in Tasks |-> Idle]
    /\ host = NoHost
    /\ attempts = NoAttempts
    /\ running = NotRunning

CacheNext ==
    \/ Tick
    \/ \E action \in {"getProfiles", "getCachedProfiles"} : CallHandleMessage(action)

CacheSpec == CacheInit /\ [][CacheNext]_vars

(***************************************************************************)
(* ConfigFileParser.parse over an SSO section that also holds a key the    *)
(* parser has no field for.                                                *)
(***************************************************************************)
KeysInit ==
    /\ now = 0
    /\ cred_file = NoFile
    /\ config_file \in FilesWith({1, 5})
    /\ nosso = FALSE
    /\ sso_dir = NoDir
    /\ boto3 = FALSE
    /\ impl = "api"
    /\ writes = 0
    /\ ProgramInit

KeysNext ==
    \/ Tick
    \/ \E c \in {1, 5} : WriteFile("config", c)
    \/ DeleteFile("config")
    \/ CallParse("config")

KeysSpec == KeysInit /\ [][KeysNext]_vars

(***************************************************************************)
(* INIFileParser.parse and the legacy parse_credentials_file as the steps   *)
(* they take on the file system, with another process writing the file      *)
(* between the steps.  The package's FileCache.set stats the file when it    *)
(* stores; the legacy script stats it before it reads.                       *)
(***************************************************************************)
RaceContents == {1, 3}

\* a write by another process, later than the file's last modification
WriteFileLater(path, c) ==
    /\ ~FileOf(path).exists \/ FileOf(path).mtime < now
    /\ WriteFile(path, c)

ParseReturns(path, profiles, reads) ==
    /\ op' = Call("parse", path, FALSE)
    /\ ret' = [RetNone EXCEPT !.profiles = profiles]
    /\ io' = [IoNone EXCEPT !.reads = reads]

\* cache.get and the exists check: a hit or a missing file ends the call
ParseBegin(path) ==
    /\ running.pc = "idle"
    /\ \E cached \in {FileCacheGet(FileOf(path), file_cache[path])} :
         IF cached.found \/ ~FileOf(path).exists
         THEN /\ ParseReturns(path, cached.data, <<>>)
              /\ UNCHANGED running
         ELSE /\ running' = [NotRunning EXCEPT !.pc = "read", !.path = path,
                                               !.mtime = FileOf(path).mtime]
              /\ UNCHANGED <<op, ret, io>>
    /\ UNCHANGED <<now, cred_file, config_file, nosso, sso_dir, boto3, impl, file_cache,
                   memory_cache, url_cache, prev, dirty, writes, profile_cache, tasks,
                   host, attempts>>

\* _parse_file: the content the file has now
ParseRead ==
    /\ running.pc = "read"
    /\ FileOf(running.path).exists
    /\ running' = [running EXCEPT !.pc = "set",
                      !.data = ParseFile(running.path,
                                         Lines(running.path, FileOf(running.path)), now)]
    /\ UNCHANGED <<now, cred_file, config_file, nosso, sso_dir, boto3, impl, file_cache,
                   memory_cache, url_cache, op, ret, io, prev, dirty, writes,
                   profile_cache, tasks, host, attempts>>

\* cache.set, with the mtime the file has now; the legacy script stores the
\* mtime it read before parsing
ParseSet ==
    /\ running.pc = "set"
    /\ file_cache' =
         IF impl = "legacy"
         THEN [file_cache EXCEPT ![running.path] =
                  [has |-> TRUE, mtime |-> running.mtime, data |-> running.data]]
         ELSE FileCacheSet(file_cache, running.path, FileOf(running.path), running.data)
    /\ ParseReturns(running.path, running.data, <<running.path>>)
    /\ running' = NotRunning
    /\ UNCHANGED <<now, cred_file, config_file, nosso, sso_dir, boto3, impl,
                   memory_cache, url_cache, prev, dirty, writes, profile_cache, tasks,
                   host, attempts>>

RaceInit ==
    /\ now = 0
    /\ cred_file = NoFile
    /\ config_file = NoFile
    /\ nosso = FALSE
    /\ sso_dir = NoDir
    /\ boto3 = FALSE
    /\ impl \in {"api", "legacy"}
    /\ writes = 0
    /\ ProgramInit

RaceNext ==
    \/ Tick
    \/ \E c \in RaceContents : WriteFileLater("cred", c)
    \/ ParseBegin("cred")
    \/ ParseRead
    \/ ParseSet

RaceSpec == RaceInit /\ [][RaceNext]_vars

(***************************************************************************)
(* get_all_profiles as the steps it takes while another process creates or *)
(* removes ~/.aws/.nosso: _get_profiles_with_boto3 builds one profile per  *)
(* step, and _build_profile_info looks for the marker file itself;         *)
(* _get_profiles_manual looks for it once.                                 *)
(***************************************************************************)
ListReturns(path, skip_sso_enrichment, profiles) ==
    /\ op' = Call("list", path, skip_sso_enrichment)
    /\ ret' = [RetNone EXCEPT !.profiles = profiles]
    /\ io' = [IoNone EXCEPT !.sdk = IF boto3 THEN 1 ELSE 0]

\* get_all_profiles up to the loop of the SDK path; the manual path whole
ListBegin(skip_sso_enrichment) ==
    /\ running.pc = "idle"
    /\ IF boto3
       THEN /\ running' = [NotRunning EXCEPT !.pc = "build", !.i = 1,
                                             !.skip = skip_sso_enrichment]
            /\ UNCHANGED <<file_cache, memory_cache, op, ret, io>>
       ELSE \E order \in GlobOrders(sso_dir) :
            \E r \in {GetProfilesManual(impl, skip_sso_enrichment, NoSt, order, now)} :
              /\ file_cache' = r.st.cache
              /\ memory_cache' = r.st.mc
              /\ ListReturns("manual", skip_sso_enrichment, r.profiles)
              /\ UNCHANGED running
    /\ UNCHANGED <<now, cred_file, config_file, nosso, sso_dir, boto3, impl, url_cache,
                   prev, dirty, writes, profile_cache, tasks, host, attempts>>

\* one turn of "for profile_name in available_profiles"
BuildOne ==
    /\ running.pc = "build"
    /\ running.i <= Len(AvailableProfiles)
    /\ \E order \in GlobOrders(sso_dir) :
       \E b \in {BuildProfileInfo(impl, AvailableProfiles[running.i], running.skip,
                                  NoSt, order, now)} :
         /\ file_cache' = b.st.cache
         /\ memory_cache' = b.st.mc
         /\ running' = [running EXCEPT !.i = @ + 1,
                           !.data = IF b.some THEN Append(@, b.profile) ELSE @]
    /\ UNCHANGED <<now, cred_file, config_file, nosso, sso_dir, boto3, impl, url_cache,
                   op, ret, io, prev, dirty, writes, profile_cache, tasks, host,
                   attempts>>

\* the loop is over: return profiles
ListEnd ==
    /\ running.pc = "build"
    /\ running.i > Len(AvailableProfiles)
    /\ ListReturns("sdk", running.skip, running.data)
    /\ running' = NotRunning
    /\ UNCHANGED <<now, cred_file, config_file, nosso, sso_dir, boto3, impl, file_cache,
                   memory_cache, url_cache, prev, dirty, writes, profile_cache, tasks,
                   host, attempts>>

LoopInit ==
    /\ now = 0
    /\ cred_file \in FilesWith({3})
    /\ config_file \in FilesWith({1, 4})
    /\ nosso \in BOOLEAN
    /\ sso_dir = NoDir
    /\ boto3 \in BOOLEAN
    /\ impl = "api"
    /\ writes = 0
    /\ ProgramInit

LoopNext ==
    \/ Tick
    \/ \E b \in BOOLEAN : SetNosso(b)
    \/ \E skip \in BOOLEAN : ListBegin(skip)
    \/ BuildOne
    \/ ListEnd

LoopSpec == LoopInit /\ [][LoopNext]_vars

(***************************************************************************)
(* POST /profiles of the HTTP server: every request builds a new           *)
(* AWSProfileBridge, whose _initialize_components makes a new FileCache    *)
(* and a new SSOTokenCache (ProfileCache reopens its file on disk), and    *)
(* calls _handle_get_profiles on the new handler.                          *)
(***************************************************************************)
\* the caches of a bridge just built
InitializeComponents ==
    [NoSt EXCEPT !.cache = [p \in Paths |-> NoEntry],
                 !.mc = [u \in StartUrls |-> NoMemory]]

\* get_profiles of api_server.py; file_cache and memory_cache are the caches
\* of the bridge built last
PostProfiles ==
    \E order \in GlobOrders(sso_dir), sdk_ok \in {b \in BOOLEAN : b \/ boto3} :
     \E listed \in {GetAllProfiles(impl, FALSE, InitializeComponents, order, now,
                                   sdk_ok)} :
      \E disk \in DiskAnswers :
      \E r \in {HandleGetProfiles(profile_cache, listed, now, ~(boto3 /\ sdk_ok), disk)} :
        /\ file_cache' = r.st.cache
        /\ memory_cache' = r.st.mc
        /\ profile_cache' = r.pc
        /\ op' = Call("POST /profiles", IF boto3 /\ sdk_ok THEN "sdk" ELSE "manual", FALSE)
        /\ ret' = [RetNone EXCEPT !.profiles = r.profiles, !.action = r.action]
        /\ io' = [IoNone EXCEPT !.reads = r.st.reads, !.tokens = r.st.tokens,
                                !.opened = r.st.opened]
        /\ dirty' = FALSE
        /\ UNCHANGED <<now, cred_file, config_file, nosso, sso_dir, boto3, impl,
                       url_cache, prev, writes, tasks, host, attempts, running>>

RequestNext ==
    \/ Tick
    \/ \E c \in {3, 4} : WriteFile("config", c)
    \/ PostProfiles

RequestSpec == HandlerInit /\ [][RequestNext]_vars

(***************************************************************************)
(* C1: get_token never returns an expired token: whatever the tier that    *)
(* served it, a returned token has expiresAt strictly later than the time  *)
(* of the call.                                                            *)
(***************************************************************************)
TokenNeverExpired ==
    (op.name = "get_token" /\ ret.token.kind = "tok")
        => (ret.token.expiresAt # NoneT /\ ret.token.expiresAt > op.at)

\* a token served from the memory tier after its file was removed or replaced
TokenServedFromMemory ==
    /\ op.name = "get_token"
    /\ ret.token.kind = "tok"
    /\ io.tier = "memory"
    /\ sso_dir.files[CacheKey(op.arg)] # ret.token
    /\ op.at > 0


(***************************************************************************)
(* C2: parse serves the cached list exactly when the file's current mtime  *)
(* equals the mtime stored with the entry, and then reads nothing; on a    *)
(* mismatch or a first call it reads and parses the file as it is now and  *)
(* replaces the entry.  The clock plays no part.                           *)
(***************************************************************************)
ParseFollowsMtime ==
    [][\A p \in Paths :
        (Called("parse") /\ op'.arg = p) =>
            IF FileOf(p).exists /\ file_cache[p].has
               /\ file_cache[p].mtime = FileOf(p).mtime
            THEN /\ ret'.profiles = file_cache[p].data
                 /\ io'.reads = <<>>
                 /\ file_cache' = file_cache
            ELSE IF FileOf(p).exists
                 THEN /\ ret'.profiles = ParseFile(p, Lines(p, FileOf(p)), now)
                      /\ io'.reads = <<p>>
                      /\ file_cache'[p] = [has |-> TRUE, mtime |-> FileOf(p).mtime,
                                           data |-> ret'.profiles]
                 ELSE /\ ret'.profiles = <<>>
                      /\ io'.reads = <<>>]_vars

\* the second of two parse calls on a file rewritten in between, at a later
\* time, gives the new content
ParsedAfterRewrite ==
    /\ op.name = "parse" /\ prev.name = "parse" /\ prev.arg = op.arg
    /\ ~prev.clean /\ ~prev.same
    /\ FileOf(op.arg).exists
    /\ io.reads = <<op.arg>>
    /\ ret.profiles # <<>>
    /\ \E t \in Times : ret.profiles = ParseFile(op.arg, Lines(op.arg, FileOf(op.arg)), t)


(***************************************************************************)
(* C3: two consecutive fast listings (skip_sso_enrichment = TRUE) with no  *)
(* change of a file or of the sentinel between them return the same list,  *)
(* and the second reads the content of no file, on the SDK path and on the *)
(* manual path.                                                            *)
(***************************************************************************)
FastListingIdempotent ==
    [][(Called("list") /\ op'.skip /\ op.name = "list" /\ op.skip /\ ~dirty)
          => (ret'.profiles = ret.profiles /\ io'.reads = <<>>)]_vars


(***************************************************************************)
(* C4: a name that is a section of the credentials file and a section of   *)
(* the config file with SSO markers appears exactly once in the listing,   *)
(* as an SSO profile carrying its SSO fields.                              *)
(***************************************************************************)
CredentialNames ==
    IF cred_file.exists
    THEN {ParseFile("cred", Lines("cred", cred_file), 0)[i].name :
             i \in 1..Len(ParseFile("cred", Lines("cred", cred_file), 0))}
    ELSE {}

NamesInBoth ==
    {name \in CredentialNames :
        "sso_start_url" \in DOMAIN GetConfig(config_file, name).ret
        \/ "sso_session" \in DOMAIN GetConfig(config_file, name).ret}

SsoEntryWinsMerge ==
    (op.name = "list" /\ ~dirty /\ ~nosso) =>
        \A name \in NamesInBoth :
            /\ Cardinality({i \in DOMAIN ret.profiles : ret.profiles[i].name = name}) = 1
            /\ \A i \in DOMAIN ret.profiles :
                  ret.profiles[i].name = name =>
                      /\ Get(ret.profiles[i], "is_sso", FALSE)
                      /\ ("sso_start_url" \in DOMAIN ret.profiles[i]
                          \/ "sso_session" \in DOMAIN ret.profiles[i])


(***************************************************************************)
(* C5: while the sentinel .nosso is present, a listing at either depth     *)
(* returns no profile carrying SSO markers: the manual path returns the    *)
(* parse of the credentials file and neither reads nor caches the config   *)
(* file; the SDK path returns exactly the enumerated names whose config    *)
(* section has neither sso_start_url nor sso_session.                      *)
(***************************************************************************)
CarriesSsoMarkers(profile) ==
    \/ Get(profile, "is_sso", FALSE)
    \/ "sso_start_url" \in DOMAIN profile
    \/ "sso_session" \in DOMAIN profile

ConfigHasSsoMarkers(name) ==
    "sso_start_url" \in DOMAIN GetConfig(config_file, name).ret
    \/ "sso_session" \in DOMAIN GetConfig(config_file, name).ret

SentinelHidesSso ==
    [][(Called("list") /\ nosso) =>
        /\ \A i \in DOMAIN ret'.profiles : ~CarriesSsoMarkers(ret'.profiles[i])
        /\ op'.arg = "manual" =>
              /\ ret'.profiles = Parse("cred", cred_file, file_cache, now).ret
              /\ \A k \in DOMAIN io'.reads : io'.reads[k] # "config"
              /\ file_cache'["config"] = file_cache["config"]
        /\ op'.arg = "sdk" =>
              \A k \in DOMAIN AvailableProfiles :
                  (\E i \in DOMAIN ret'.profiles :
                        ret'.profiles[i].name = AvailableProfiles[k])
                    <=> ~ConfigHasSsoMarkers(AvailableProfiles[k])]_vars

\* a listing under the sentinel that kept some profiles and dropped an SSO one
SentinelDroppedSso ==
    /\ op.name = "list" /\ ~dirty /\ nosso
    /\ op.arg = "sdk"
    /\ ret.profiles # <<>>
    /\ \E k \in DOMAIN AvailableProfiles : ConfigHasSsoMarkers(AvailableProfiles[k])


(***************************************************************************)
(* C6: a fast listing never consults the token cache: no get_token call,   *)
(* no token file opened, the memory tier untouched; the SSO profiles it    *)
(* returns are the parser's records (manual path) or carry the values they *)
(* are built with (SDK path), whatever the token directory holds.          *)
(***************************************************************************)
FastListingSkipsTokens ==
    [][(Called("list") /\ op'.skip) =>
        /\ io'.tokens = 0
        /\ io'.opened = {}
        /\ memory_cache' = memory_cache
        /\ \A i \in DOMAIN ret'.profiles :
              CarriesSsoMarkers(ret'.profiles[i]) =>
                  IF op'.arg = "manual"
                  THEN \E j \in DOMAIN Parse("config", config_file, file_cache, now).ret :
                          Parse("config", config_file, file_cache, now).ret[j]
                              = ret'.profiles[i]
                  ELSE /\ ret'.profiles[i].expired = FALSE
                       /\ ret'.profiles[i].has_credentials = TRUE
                       /\ ret'.profiles[i].expiration = NoneT]_vars

\* a fast listing of an SSO profile while a valid token for it is on disk
FastListingWithTokenOnDisk ==
    /\ op.name = "list" /\ op.skip /\ ~dirty
    /\ IsTokenValid(sso_dir.files["f1"], now)
    /\ \E i \in DOMAIN ret.profiles :
          /\ Get(ret.profiles[i], "sso_start_url", NoneS) = "u1"
          /\ ret.profiles[i].expiration = NoneT


(***************************************************************************)
(* C7: a full listing consults the token cache once for every profile it   *)
(* returns with is_sso = TRUE, whether marked by sso_start_url or by       *)
(* sso_session, and while no valid token exists, on disk or in memory,     *)
(* every such profile has expired = TRUE and has_credentials = FALSE.      *)
(***************************************************************************)
NoValidToken ==
    /\ \A f \in TokenFileNames : ~IsTokenValid(sso_dir.files[f], now)
    /\ \A u \in StartUrls : ~memory_cache[u].has

FullListingResolvesSso ==
    [][(Called("list") /\ ~op'.skip /\ ~nosso) =>
        /\ io'.tokens = Cardinality({i \in DOMAIN ret'.profiles :
                                        Get(ret'.profiles[i], "is_sso", FALSE)})
        /\ NoValidToken =>
              \A i \in DOMAIN ret'.profiles :
                  Get(ret'.profiles[i], "is_sso", FALSE) =>
                      /\ ret'.profiles[i].expired = TRUE
                      /\ ret'.profiles[i].has_credentials = FALSE]_vars


(***************************************************************************)
(* C8: CredentialProvider.get_credentials tries its sources in the order   *)
(* SDK, credentials file, config entry, token cache, exchange, and stops   *)
(* at the first success: the SDK is asked exactly when it is available and *)
(* its credentials are returned as they are; when it raises or gives       *)
(* nothing, a non-empty section of the credentials file is returned; only  *)
(* then is the config entry read, the token cache consulted when the entry *)
(* is a complete SSO entry, and the exchange called when the token has an  *)
(* access token.  None is returned only when every source failed.          *)
(***************************************************************************)
StepRank(step) ==
    IF step = "sdk" THEN 1 ELSE IF step = "credfile" THEN 2
    ELSE IF step = "config" THEN 3 ELSE IF step = "token" THEN 4 ELSE 5

Tried(steps, step) == \E k \in DOMAIN steps : steps[k] = step

LongTermOpensConsole ==
    [][(/\ Called("open")
        /\ Truthy(Get(ret'.creds, "aws_access_key_id", NoneS))
        /\ Truthy(Get(ret'.creds, "aws_secret_access_key", NoneS))
        /\ ~Truthy(Get(ret'.creds, "aws_session_token", NoneS)))
          => (ret'.url = ConsoleUrl /\ ret'.error = "" /\ io'.fed = 0)]_vars

\* a profile opened with the long-term keys of its credentials-file section
OpenedWithLongTermKeys ==
    /\ op.name = "open" /\ impl = "nm"
    /\ io.steps = <<"credfile">>
    /\ "aws_secret_access_key" \in DOMAIN ret.creds
    /\ "aws_session_token" \notin DOMAIN ret.creds
    /\ ret.url = ConsoleUrl


(***************************************************************************)
(* C10: a second open-profile request for the same profile, resolved to    *)
(* the same temporary credentials of the credentials file before they      *)
(* expire, is answered with the URL of the first request and makes no call *)
(* to the federation endpoint.                                             *)
(***************************************************************************)
SecondOpenServedFromUrlCache ==
    [][(/\ Called("open") /\ op.name = "open" /\ op'.arg = op.arg
        /\ ret.error = "" /\ io.fed = 1
        /\ io.steps = <<"credfile">> /\ io'.steps = <<"credfile">>
        /\ ret'.creds = ret.creds
        /\ now < 2 /\ ~dirty)
          => (io'.fed = 0 /\ ret'.url = ret.url)]_vars

(***************************************************************************)
(* C11: ConsoleURLCache.get returns a cached URL only if the entry is      *)
(* unexpired (the clock is not after its expires_at) and no credential     *)
(* expiry was recorded with it, or the request passes none, or the         *)
(* recorded expiry equals the one passed; otherwise it returns absent.     *)
(***************************************************************************)
Unexpired(entry) == ~(now > entry.expires_at)

RecordedExpiryMatches(entry, current_expiry) ==
    \/ entry.credential_expiry = NoIso
    \/ entry.credential_expiry = IsoFormat(current_expiry)

UrlHitOnlyIfValid ==
    [][Called("url_get") =>
          LET result == UrlSearch(url_cache, op'.arg)
              valid == /\ result # <<>>
                       /\ Unexpired(result[1])
                       /\ \/ RecordedExpiryMatches(result[1], op'.expiry)
                          \/ op'.expiry = NoneT
          IN  /\ ret'.url # NoneS <=> valid
              /\ valid => ret'.url = result[1].url]_vars

\* C11 as stated: a hit needs the recorded expiry, when there is one, to equal
\* the expiry passed by the request
UrlHitOnlyIfExpiryMatches ==
    [][Called("url_get") =>
          LET result == UrlSearch(url_cache, op'.arg)
              valid == /\ result # <<>>
                       /\ Unexpired(result[1])
                       /\ RecordedExpiryMatches(result[1], op'.expiry)
          IN  ret'.url # NoneS <=> valid]_vars

UrlHitWithMatchingExpiry ==
    /\ op.name = "url_get"
    /\ op.expiry # NoneT
    /\ ret.url # NoneS
    /\ UrlSearch(url_cache, op.arg)[1].credential_expiry = IsoFormat(op.expiry)

(***************************************************************************)
(* C12: a lookup carrying another credential expiry than the one recorded  *)
(* with the entry, or made after the entry's own expiry, is a miss and     *)
(* removes the entry; a profile without an entry stays a miss, and only    *)
(* set creates an entry.                                                   *)
(***************************************************************************)
StaleUrlEntryRemoved ==
    [][/\ Called("url_get") =>
            LET result == UrlSearch(url_cache, op'.arg)
            IN  /\ (/\ result # <<>>
                    /\ \/ /\ op'.expiry # NoneT
                          /\ result[1].credential_expiry # NoIso
                          /\ result[1].credential_expiry # IsoFormat(op'.expiry)
                       \/ now > result[1].expires_at)
                      => (ret'.url = NoneS /\ UrlSearch(url_cache', op'.arg) = <<>>)
                /\ result = <<>> => (ret'.url = NoneS /\ url_cache' = url_cache)
       /\ \A n \in ProfileNames :
            (UrlSearch(url_cache, n) = <<>> /\ UrlSearch(url_cache', n) # <<>>)
                => (Called("url_set") /\ op'.arg = n)]_vars

ChangedUrlEntryRemoved ==
    /\ op.name = "url_get"
    /\ io.tier = "changed"
    /\ ret.url = NoneS
    /\ UrlSearch(url_cache, op.arg) = <<>>

(***************************************************************************)
(* C13: set stores the URL with expires_at equal to the earlier of         *)
(* now + default_ttl and the credential expiry when one is given, so never *)
(* later than now + default_ttl.                                           *)
(***************************************************************************)
Earlier(a, b) == IF a < b THEN a ELSE b

UrlTtlCappedByDefault ==
    [][Called("url_set") =>
          LET result == UrlSearch(url_cache', op'.arg)
          IN  /\ Len(result) = 1
              /\ result[1].expires_at =
                    IF op'.expiry = NoneT THEN now + default_ttl
                    ELSE Earlier(now + default_ttl, op'.expiry)
              /\ result[1].expires_at <= now + default_ttl]_vars

(***************************************************************************)
(* C14: in every profile list the host returns (getProfiles,               *)
(* enrichSSOProfiles, getCachedProfiles) and in the list refreshCache      *)
(* stores, a profile whose is_sso is false or missing carries none of      *)
(* sso_start_url, sso_session, sso_region, sso_account_id, sso_role_name.  *)
(***************************************************************************)
WithoutSsoFields(profiles) ==
    \A i \in DOMAIN profiles :
        ~Get(profiles[i], "is_sso", FALSE) => (DOMAIN profiles[i]) \cap SsoKeys = {}

MemoryServable(start_url) ==
    /\ memory_cache[start_url].has
    /\ now - memory_cache[start_url].cache_time < DEFAULT_CACHE_TTL_SECONDS
    /\ memory_cache[start_url].token.expiresAt # NoneT
    /\ memory_cache[start_url].token.expiresAt > now

MemoryStale(start_url) ==
    memory_cache[start_url].has /\ ~MemoryServable(start_url)

MemoryServedOnlyFreshAndUnexpired ==
    [][Called("get_token") =>
         \A u \in StartUrls : op'.arg = u =>
           /\ io'.tier = "memory" =>
                MemoryServable(u) /\ ret'.token = memory_cache[u].token
           /\ MemoryStale(u) =>
                /\ io'.tier # "memory"
                /\ sso_dir.exists /\ sso_dir.files[CacheKey(u)].kind # "none"
                     => CacheKey(u) \in io'.opened
                /\ impl = "nm" => memory_cache'[u] # memory_cache[u]]_vars

\* C15 as stated: every implementation deletes the entry that fails a test
StaleMemoryEntryDeleted ==
    [][Called("get_token") =>
         \A u \in StartUrls : op'.arg = u /\ MemoryStale(u) =>
             memory_cache'[u] # memory_cache[u]]_vars

\* get_token of SSOTokenCache found an entry, deleted it and missed on disk
StaleMemoryEntryDropped ==
    /\ impl = "nm"
    /\ op.name = "get_token"
    /\ op.arg = "u1"
    /\ io.dropped = 1
    /\ io.opened # {}
    /\ ~memory_cache["u1"].has

(***************************************************************************)
(* C16: a token found on disk is promoted into the memory tier and lookups *)
(* go memory, hashed file name, linear scan: a token served from memory    *)
(* opens no file, a file other than the hashed one is opened only when the *)
(* hashed one holds no valid token, and after get_token(startUrl) hit on   *)
(* disk the next get_token(startUrl), less than DEFAULT_CACHE_TTL_SECONDS  *)
(* later and before the token's expiresAt, returns the same token from     *)
(* memory without opening a file.                                          *)
(***************************************************************************)
HashedFileValid(start_url) ==
    /\ sso_dir.files[CacheKey(start_url)].kind = "tok"
    /\ IsTokenValid(sso_dir.files[CacheKey(start_url)], now)

SecondLookupAfterDiskHit(start_url) ==
    /\ op.name = "get_token"
    /\ op.arg = start_url
    /\ io.tier \in {"hash", "scan"}
    /\ now - op.at < DEFAULT_CACHE_TTL_SECONDS

DiskHitPromotedAndOrderKept ==
    [][Called("get_token") =>
         \A u \in StartUrls : op'.arg = u =>
           /\ io'.tier \in {"hash", "scan"} =>
                memory_cache'[u] = [has |-> TRUE, token |-> ret'.token, cache_time |-> now]
           /\ MemoryServable(u) => io'.tier = "memory"
           /\ io'.tier = "memory" => io'.opened = {}
           /\ io'.tier = "hash" => io'.opened = {CacheKey(u)}
           /\ io'.opened \ {CacheKey(u)} # {} => ~HashedFileValid(u)
           /\ io'.tier = "scan" => ~HashedFileValid(u)
           /\ SecondLookupAfterDiskHit(u) /\ IsTokenValid(ret.token, now) =>
                /\ ret'.token = ret.token
                /\ io'.tier = "memory"
                /\ io'.opened = {}]_vars

\* C16 as stated: the second lookup inside the freshness window always returns
\* the same token without opening a file
SecondLookupSameToken ==
    [][Called("get_token") =>
         \A u \in StartUrls : op'.arg = u /\ SecondLookupAfterDiskHit(u) =>
             ret'.token = ret.token /\ io'.opened = {}]_vars

\* a token promoted by an earlier lookup is served from memory at a later time,
\* when its file is gone
PromotedTokenServedFromMemory ==
    /\ op.name = "get_token"
    /\ op.arg = "u1"
    /\ io.tier = "memory"
    /\ io.opened = {}
    /\ ret.token.kind = "tok"
    /\ memory_cache["u1"].cache_time < now
    /\ \A f \in TokenFileNames : sso_dir.files[f].kind = "none"

(***************************************************************************)
(* C17: SSOTokenCache.clear empties the memory tier and changes nothing    *)
(* else, and no operation of the token cache (get_token, clear, the        *)
(* enrichment, the credential exchange) changes the token directory: only  *)
(* the identity provider writes and deletes token files.                   *)
(***************************************************************************)
ClearEmptiesMemoryOnly ==
    [][/\ op'.n # op.n => sso_dir' = sso_dir
       /\ Called("clear") =>
            /\ \A u \in StartUrls : memory_cache'[u] = NoMemory
            /\ UNCHANGED <<now, cred_file, config_file, sso_dir, file_cache,
                           url_cache, profile_cache>>]_vars

\* clear dropped a promoted token while its file stays in the token directory
ClearedWithTokenOnDisk ==
    /\ op.name = "clear"
    /\ io.dropped >= 1
    /\ \A u \in StartUrls : ~memory_cache[u].has
    /\ \E f \in TokenFileNames : sso_dir.files[f].kind = "tok"

(***************************************************************************)
(* C18: when a configuration file exists and opening it fails, parse       *)
(* returns an empty list, ProfileConfigReader.get_credentials and          *)
(* get_config return nothing, and no exception leaves the call.            *)
(***************************************************************************)
ReadFailureLikeAbsentFile ==
    io.fs = "open_fails" =>
        /\ ret.error = ""
        /\ ret.profiles = <<>>
        /\ ret.creds = EmptyDict

(***************************************************************************)
(* C20: when no credentials are resolved for the profile of an openProfile *)
(* request, generate_url returns the error that names the profile and      *)
(* tells to run aws sso login, the federation endpoint is not called, no   *)
(* URL is returned, and the handler answers 'error', never 'consoleUrl'.   *)
(***************************************************************************)
NoCredentialsAnsweredWithLoginHint ==
    op.name = "open" /\ ret.creds = EmptyDict /\ ret.error # "Missing profileName" =>
        /\ ret.message = NoCredentialsMessage(op.arg)
        /\ io.fed = 0
        /\ ret.url = ""
        /\ ret.action = "error"

\* openProfile of an SSO profile whose token lookup found nothing
OpenProfileWithoutCredentials ==
    /\ impl = "nm"
    /\ op.name = "open"
    /\ op.arg = <<"", "dev">>
    /\ ret.creds = EmptyDict
    /\ io.tokens >= 1
    /\ ret.action = "error"
    /\ ret.message = NoCredentialsMessage(<<"", "dev">>)

(***************************************************************************)
(* C19: the caches are safe under concurrent callers: two tasks inside     *)
(* get_token of the same SSOTokenCache never fail, whatever the            *)
(* interleaving of their steps, also when both evict the same stale entry. *)
(***************************************************************************)
ConcurrentLookupsNeverFail ==
    \A t \in Tasks : tasks[t].pc # "failed"

(***************************************************************************)
(* C21: the failure text of generate_url does not depend on secret values: *)
(* two runs for the same profile that fail in the same way (the same       *)
(* fields missing, the same reply of the endpoint) and differ only in the  *)
(* values of the access key, the secret key, the session token or the      *)
(* bearer token return the same text, and no part of a text is a secret.   *)
(***************************************************************************)
SecretValues ==
    ((AccessKeys \cup SecretKeys \cup SessionTokens \cup BearerTokens) \ {"", NoneS})
        \cup {RoleCredentials.aws_access_key_id, RoleCredentials.aws_secret_access_key,
              RoleCredentials.aws_session_token}

FailureTextIndependentOfSecrets ==
    op.name = "generate_url" =>
        /\ ret.runs[1].message = ret.runs[2].message
        /\ \A r \in 1..2 : \A i \in DOMAIN ret.runs[r].message :
                ret.runs[r].message[i] \notin SecretValues

\* two runs with three different secrets that both fail on a network error
TwoRunsFailWithDifferentSecrets ==
    /\ op.name = "generate_url"
    /\ impl = "legacy"
    /\ io.sdkres = "network"
    /\ io.inputs = <<ResolvedFromFile("AK1", "SK1", "ST1"),
                     ResolvedFromFile("AK2", "SK2", "ST2")>>
    /\ ret.runs[1].message # <<>>
    /\ ret.runs[1].url = ""

(***************************************************************************)
(* C22: credentials are never cached or persisted: no cache (the file      *)
(* parse cache, the token memory cache, the console URL cache, the         *)
(* persisted profile cache) holds an access key id, a secret access key or *)
(* a session token, and every resolve reads its sources again: what it     *)
(* returns is what the SDK answered in this call, the section of the       *)
(* credentials file as it is now, or the result of an exchange made in     *)
(* this call.                                                              *)
(***************************************************************************)
CredentialValues ==
    UNION {{CredContents[c][i].val : i \in {j \in DOMAIN CredContents[c] :
                                              CredContents[c][j].key \in CredentialKeys}} :
           c \in DOMAIN CredContents}
      \cup {RoleCredentials[k] : k \in CredentialKeys}
      \cup {SdkCredentials("temp")[k] : k \in CredentialKeys}

HoldNoCredential(profiles) ==
    \A i \in DOMAIN profiles : (DOMAIN profiles[i]) \cap CredentialKeys = {}

NoCredentialInCaches ==
    /\ \A p \in Paths : HoldNoCredential(file_cache[p].data)
    /\ \A u \in StartUrls : memory_cache[u].token.accessToken \notin CredentialValues
    /\ \A e \in DOMAIN url_cache : url_cache[e].url \notin CredentialValues
    /\ \A e \in DOMAIN profile_cache.table :
            HoldNoCredential(profile_cache.table[e].profiles)

CredentialsNeverCached ==
    /\ []NoCredentialInCaches
    /\ [][Called("resolve") =>
            /\ io'.steps # <<>>
            /\ ret'.creds # EmptyDict =>
                 \/ /\ io'.sdkres \in {"long", "temp"}
                    /\ ret'.creds = SdkCredentials(io'.sdkres)
                 \/ /\ \E i \in DOMAIN io'.reads : io'.reads[i] = "cred"
                    /\ ret'.creds = ReadCredentialsLoop(Lines("cred", cred_file), op'.arg,
                                                        1, FALSE, EmptyDict)
                 \/ /\ io'.role = 2
                    /\ ret'.creds = RoleCredentials]_vars

\* a resolve after the credentials file was rewritten, while the file parse
\* cache holds a parse of the file
ResolvedAfterRewrite ==
    /\ impl = "api"
    /\ op.name = "resolve"
    /\ op.arg = <<"", "dev">>
    /\ writes >= 1
    /\ cred_file.content = 3
    /\ file_cache["cred"].has
    /\ ret.creds # EmptyDict
    /\ ret.creds.aws_access_key_id = "AK1"

(***************************************************************************)
(* C23: handling the getProfiles action runs the aggregator in fast mode:  *)
(* it never looks a token up in the bearer token cache and opens no token  *)
(* file.                                                                   *)
(***************************************************************************)
GetProfilesLooksUpNoToken ==
    op.name = "getProfiles" => io.tokens = 0 /\ io.opened = {}

(***************************************************************************)
(* C24: the caches do not outlive the process: the first listing after a   *)
(* restart is never answered from a cached list, it is derived from the    *)
(* configuration files.                                                    *)
(***************************************************************************)
FirstListingAfterRestartReadsFiles ==
    [][op.name = "restart" /\ (Called("getProfiles") \/ Called("getCachedProfiles"))
         => op'.arg # "cache" /\ io'.reads # <<>>]_vars

(***************************************************************************)
(* C25: get_all_profiles never returns two profiles with the same name,    *)
(* on the manual path, the SDK path and the SSO-skip path, also when a     *)
(* file repeats a section header.                                          *)
(***************************************************************************)
ProfileNamesUnique ==
    op.name = "list" =>
        \A i, j \in 1..Len(ret.profiles) :
            i # j => ret.profiles[i].name # ret.profiles[j].name

(***************************************************************************)
(* C26: run() answers every message it read before it reads the next one   *)
(* or stops: whenever the loop is about to read, or has ended, the         *)
(* responses written are those of the messages read, in arrival order.     *)
(***************************************************************************)
OneResponsePerMessageRead ==
    host.pc \in {"read", "done", "raised"} => host.stdout = host.taken

(***************************************************************************)
(* C27: authenticate asks the limiter first: a limited caller gets 429     *)
(* with no token validation and no failure recorded; otherwise a token     *)
(* other than the stored one records exactly one failure and gets 401, and *)
(* the stored token records nothing and passes; when the last MAX_ATTEMPTS *)
(* failures all lie within the window, the attempt gets 429.               *)
(***************************************************************************)
RecentFailures == Newer(attempts[DEFAULT_CLIENT_ID], now - WINDOW_SECONDS)

LastFailuresInWindow ==
    /\ Len(io.recorded) >= MAX_ATTEMPTS
    /\ \A i \in (Len(io.recorded) - MAX_ATTEMPTS + 1)..Len(io.recorded) :
            io.recorded[i][2] > now - WINDOW_SECONDS

RateLimitCheckedBeforeToken ==
    [][Called("authenticate") =>
         /\ Len(RecentFailures) >= MAX_ATTEMPTS =>
                /\ ret'.status = 429
                /\ ~ret'.validated
                /\ attempts'[DEFAULT_CLIENT_ID] = RecentFailures
         /\ Len(RecentFailures) < MAX_ATTEMPTS /\ op'.arg # API_TOKEN =>
                /\ ret'.status = 401
                /\ attempts'[DEFAULT_CLIENT_ID] = Append(RecentFailures, now)
         /\ Len(RecentFailures) < MAX_ATTEMPTS /\ op'.arg = API_TOKEN =>
                /\ ret'.status = 200
                /\ attempts'[DEFAULT_CLIENT_ID] = RecentFailures
         /\ LastFailuresInWindow => ret'.status = 429]_vars

\* a limited caller was turned away
LimitedCallerTurnedAway ==
    /\ op.name = "authenticate"
    /\ ret.status = 429
    /\ Len(io.recorded) >= MAX_ATTEMPTS
    /\ Len(attempts[DEFAULT_CLIENT_ID]) = MAX_ATTEMPTS

\* as stated: after MAX_ATTEMPTS answers of 401 in a row the next attempt gets
\* 429, whenever it is made
NextAttemptAfterFailuresLimited ==
    [][Called("authenticate") /\ ret.streak = MAX_ATTEMPTS => ret'.status = 429]_vars

(***************************************************************************)
(* C28: a request is turned away with 429 only for failures of the token   *)
(* it presents: MAX_ATTEMPTS failures were recorded for that token; the    *)
(* stored token, which never fails, is never turned away.                  *)
(***************************************************************************)
OwnFailures ==
    {i \in DOMAIN io.recorded : HashToken(io.recorded[i][1]) = HashToken(op.arg)}

RejectedOnlyForOwnFailures ==
    op.name = "authenticate" /\ ret.status = 429 =>
        /\ Cardinality(OwnFailures) >= MAX_ATTEMPTS
        /\ op.arg # API_TOKEN

(***************************************************************************)
(* C29: is_rate_limited(key) is true exactly when at least MAX_ATTEMPTS    *)
(* failures were recorded within the window under the key's text, where an *)
(* absent key counts as the empty text; the check drops the older failures *)
(* of that key and leaves every other key's failures alone.                *)
(***************************************************************************)
FailuresInWindow(keys) ==
    Cardinality({i \in DOMAIN io.recorded :
                    /\ io.recorded[i][1] \in keys
                    /\ io.recorded[i][2] > now - WINDOW_SECONDS})

SameText(key) == {k \in LimiterKeys : HashToken(k) = HashToken(key)}

LimitedExactlyAtMaxAttemptsInWindow ==
    [][Called("is_rate_limited") =>
         /\ ret'.limited = (FailuresInWindow(SameText(op'.arg)) >= MAX_ATTEMPTS)
         /\ \A i \in DOMAIN attempts'[HashToken(op'.arg)] :
                attempts'[HashToken(op'.arg)][i] > now - WINDOW_SECONDS
         /\ Len(attempts'[HashToken(op'.arg)]) = FailuresInWindow(SameText(op'.arg))
         /\ \A id \in DOMAIN attempts :
                id # HashToken(op'.arg) => attempts'[id] = attempts[id]]_vars

\* a key that had hit the limit is checked after its failures have aged out
LimitLiftedAfterWindow ==
    /\ op.name = "is_rate_limited"
    /\ ~ret.limited
    /\ io.dropped >= MAX_ATTEMPTS

\* as stated: only the failures recorded for that very key count
LimitedExactlyByOwnKey ==
    [][Called("is_rate_limited") =>
         ret'.limited = (FailuresInWindow({op'.arg}) >= MAX_ATTEMPTS)]_vars

(***************************************************************************)
(* C30: getCachedProfiles answers from the cache only a stored entry of    *)
(* the current version that has profiles and a readable timestamp at most  *)
(* DEFAULT_TTL old; the table never holds more than one entry; and after a *)
(* miss whose fallback stored its list, the next getCachedProfiles, made   *)
(* at once with the cache file readable, is answered from the cache.       *)
(***************************************************************************)
Servable(pc) ==
    /\ pc.enabled
    /\ pc.table # <<>>
    /\ "version" \in DOMAIN pc.table[1]
    /\ pc.table[1].version = CACHE_VERSION
    /\ "profiles" \in DOMAIN pc.table[1]
    /\ "timestamp" \in DOMAIN pc.table[1]
    /\ pc.table[1].timestamp # NoneT
    /\ now - pc.table[1].timestamp <= DEFAULT_TTL

RecognizedKeys == SsoKeys \cup {"region"}

UnrecognizedKeysPreserved ==
    op.name = "parse" /\ op.arg = "config" /\ config_file.exists /\ ~dirty =>
        \A i \in DOMAIN ret.profiles :
            \A j \in DOMAIN Lines("config", config_file) :
                LET line == Lines("config", config_file)[j]
                IN  line.k = "kv" /\ line.key \notin RecognizedKeys =>
                        /\ line.key \in DOMAIN ret.profiles[i]
                        /\ ret.profiles[i][line.key] = line.val

(***************************************************************************)
(* C32: get without a current credential expiry does no change detection:  *)
(* it returns the URL of the profile's entry whenever that entry has not   *)
(* expired, whatever credential expiry was recorded with it, and leaves    *)
(* the table as it is.                                                     *)
(***************************************************************************)
GetWithoutExpirySkipsChangeCheck ==
    [][Called("url_get") /\ op'.expiry = NoneT =>
         LET result == UrlSearch(url_cache, op'.arg)
         IN  result # <<>> /\ ~(now > result[1].expires_at) =>
                 /\ ret'.url = result[1].url
                 /\ url_cache' = url_cache]_vars

\* an entry stored with a credential expiry was returned to a get without one
EntryWithExpiryReturnedWithoutCheck ==
    /\ op.name = "url_get"
    /\ op.expiry = NoneT
    /\ ret.url # NoneS
    /\ UrlSearch(url_cache, op.arg) # <<>>
    /\ UrlSearch(url_cache, op.arg)[1].credential_expiry # NoIso

(***************************************************************************)
(* C33: every profile that parse returns for the credentials file with an  *)
(* expiration has expired = (expiration earlier than the time of the       *)
(* call), whether the list was parsed or came from the file-parse cache.   *)
(***************************************************************************)
ExpiredAsOfTheCall ==
    [][Called("parse") /\ op'.arg = "cred" =>
         \A i \in DOMAIN ret'.profiles :
            ret'.profiles[i].expiration # NoneT =>
                ret'.profiles[i].expired = (ret'.profiles[i].expiration < now)]_vars

(***************************************************************************)
(* C34: a section of the credentials file that holds a credential key but  *)
(* not both the access key id and the secret access key is what the        *)
(* resolver returns once the SDK gave nothing: the config file and the     *)
(* token cache are not consulted; opening the profile then answers with an *)
(* error that names the first missing field, and no request is sent.       *)
(***************************************************************************)
SectionOf(name) == GetCredentialsOfFile(cred_file, name).ret

PartialRecord(name) ==
    /\ SectionOf(name) # EmptyDict
    /\ \/ ~Truthy(Get(SectionOf(name), "aws_access_key_id", NoneS))
       \/ ~Truthy(Get(SectionOf(name), "aws_secret_access_key", NoneS))

MissingField(name) ==
    IF ~Truthy(Get(SectionOf(name), "aws_access_key_id", NoneS))
    THEN "Missing aws_access_key_id" ELSE "Missing aws_secret_access_key"

PartialRecordIsReturnedAndRejected ==
    [][/\ ( Called("resolve") /\ impl # "legacy" /\ PartialRecord(op'.arg)
            /\ io'.sdkres \notin {"long", "temp"} ) =>
                /\ ret'.creds = SectionOf(op'.arg)
                /\ \A i \in DOMAIN io'.steps : io'.steps[i] \in {"sdk", "credfile"}
                /\ io'.tokens = 0
                /\ io'.role = 0
       /\ ( Called("open") /\ impl = "nm" /\ op'.arg # NoName /\ PartialRecord(op'.arg) ) =>
                /\ ret'.action = "error"
                /\ ret'.error = MissingField(op'.arg)
                /\ ret'.creds = SectionOf(op'.arg)
                /\ \A i \in DOMAIN io'.steps : io'.steps[i] = "credfile"
                /\ io'.tokens = 0
                /\ io'.role = 0
                /\ io'.fed = 0]_vars

\* a profile with half a record and an SSO section was opened
PartialRecordOpened ==
    /\ op.name = "open"
    /\ impl = "nm"
    /\ op.arg = <<"", "ops">>
    /\ ret.error = "Missing aws_secret_access_key"
    /\ config_file.exists
    /\ config_file.content = 4

(***************************************************************************)
(* C35: whenever the file-parse cache holds (mtime m, data) for a path and  *)
(* the file's modification time is m, data is the parse of the file's       *)
(* current content, also when another process writes the file while parse   *)
(* is running.                                                              *)
(***************************************************************************)
FileCacheCoherentUnderWrites ==
    \A p \in Paths :
        ( /\ file_cache[p].has
          /\ FileOf(p).exists
          /\ file_cache[p].mtime = FileOf(p).mtime )
        => file_cache[p].data = ParseFile(p, Lines(p, FileOf(p)), now)

(***************************************************************************)
(* C37: one get_all_profiles call applies a single SSO-skip decision: the  *)
(* list it returns holds every SSO profile of the configuration or none of *)
(* them, also when the marker file is created or removed during the call.  *)
(***************************************************************************)
SsoProfileReturned(name) ==
    \E i \in DOMAIN ret.profiles :
        ret.profiles[i].name = name /\ CarriesSsoMarkers(ret.profiles[i])

ListHoldsAllOrNoSsoProfiles ==
    op.name = "list" =>
        LET sso == {AvailableProfiles[k] : k \in
                       {j \in DOMAIN AvailableProfiles :
                            ConfigHasSsoMarkers(AvailableProfiles[j])}}
        IN  \/ \A name \in sso : SsoProfileReturned(name)
            \/ \A name \in sso : ~SsoProfileReturned(name)

(***************************************************************************)
(* C38: a lockout is not extended by further attempts: an attempt answered *)
(* with 429 records no failure, and once the oldest of the last            *)
(* MAX_ATTEMPTS failures is more than WINDOW_SECONDS old the next attempt  *)
(* is not answered with 429, whatever was rejected in between.             *)
(***************************************************************************)
OldestOfLastFailures == io.recorded[Len(io.recorded) - MAX_ATTEMPTS + 1][2]

LockoutNotExtended ==
    [][Called("authenticate") =>
         /\ (ret'.status = 429) =>
                /\ io'.recorded = io.recorded
                /\ attempts'[DEFAULT_CLIENT_ID] = RecentFailures
                /\ Len(attempts'[DEFAULT_CLIENT_ID]) = MAX_ATTEMPTS
         /\ ( /\ Len(io.recorded) >= MAX_ATTEMPTS
              /\ OldestOfLastFailures < now - WINDOW_SECONDS )
            => ret'.status # 429]_vars

\* a caller was turned away with 429, and the oldest of its failures has since
\* left the window
RejectedCallerOutlastsWindow ==
    /\ op.name = "authenticate"
    /\ ret.status = 429
    /\ Len(io.recorded) >= MAX_ATTEMPTS
    /\ Len(attempts[DEFAULT_CLIENT_ID]) = MAX_ATTEMPTS
    /\ OldestOfLastFailures < now - WINDOW_SECONDS

(***************************************************************************)
(* C36: a full-depth listing does not change what a later fast-depth       *)
(* listing returns: on unmodified files the SSO profiles of the fast       *)
(* listing carry the values parsed from the file (expired false,           *)
(* has_credentials false, no expiration), not those the token enrichment   *)
(* of the full listing wrote.                                              *)
(***************************************************************************)
CarriesParsedValues(profile) ==
    /\ Get(profile, "expired", FALSE) = FALSE
    /\ Get(profile, "has_credentials", FALSE) = FALSE
    /\ Get(profile, "expiration", NoneT) = NoneT

FastListingAfterFullCarriesParsedValues ==
    [][( /\ Called("list")
         /\ op'.skip
         /\ op'.arg = "manual"
         /\ op.name = "list"
         /\ ~op.skip
         /\ op.arg = "manual"
         /\ ~dirty )
       => \A i \in DOMAIN ret'.profiles :
              CarriesSsoMarkers(ret'.profiles[i])
                  => CarriesParsedValues(ret'.profiles[i])]_vars

(***************************************************************************)
(* C39: the file-parse cache filled while serving one POST /profiles       *)
(* request is the one the next request of the same server process          *)
(* consults: a second request on unmodified files, listing by manual       *)
(* parsing, is served from the cache and reads no file.                    *)
(***************************************************************************)
SecondRequestServedFromCaches ==
    [][( /\ Called("POST /profiles")
         /\ op'.arg = "manual"
         /\ op.name = "POST /profiles"
         /\ op.arg = "manual"
         /\ ~dirty )
       => io'.reads = <<>>]_vars

====
